---- MODULE Spec2Model ----
(***************************************************************************)
(* Model of the statement-processing core of 42AD-Hackathon:               *)
(*   services/pdf_parser.py        PDFParser (candidate generator and the  *)
(*                                 fallback extraction pipeline)           *)
(*   services/reminder_service.py  ReminderService (field extraction and   *)
(*                                 credit-card record update)              *)
(*                                                                         *)
(* A Python str is a sequence of code points; a code point is written as a *)
(* one-character TLA+ string, except the Arabic-Indic digits U+0660..      *)
(* U+0669, which are written "ar0" .. "ar9".                               *)
(***************************************************************************)
EXTENDS Integers, Sequences, FiniteSets, TLC

----------------------------------------------------------------------------
(* Python str primitives used by the source                                *)

\* None, as a value distinct from every str
None == <<"<None>">>

AsciiDigits == <<"0", "1", "2", "3", "4", "5", "6", "7", "8", "9">>
ArabicDigits == <<"ar0", "ar1", "ar2", "ar3", "ar4", "ar5", "ar6", "ar7", "ar8", "ar9">>
LowerChars == <<"a", "b", "c", "d", "e", "f", "g", "h", "i", "j", "k", "l", "m",
                "n", "o", "p", "q", "r", "s", "t", "u", "v", "w", "x", "y", "z">>
UpperChars == <<"A", "B", "C", "D", "E", "F", "G", "H", "I", "J", "K", "L", "M",
                "N", "O", "P", "Q", "R", "S", "T", "U", "V", "W", "X", "Y", "Z">>
Whitespace == {" ", "\t", "\n"}

Range(f) == {f[x] : x \in DOMAIN f}
IndexOf(seq, c) == CHOOSE k \in DOMAIN seq : seq[k] = c

\* \d of a str pattern: any Unicode decimal digit
IsDigit(c) == c \in Range(AsciiDigits) \cup Range(ArabicDigits)
\* the numeric value int() gives a digit
DigitVal(c) == IF c \in Range(AsciiDigits) THEN IndexOf(AsciiDigits, c) - 1
               ELSE IndexOf(ArabicDigits, c) - 1

\* code points of the model that have no Latin-1 encoding
IsLatin1(c) == c \notin Range(ArabicDigits)

\* position of the first occurrence of c in list
FirstIndex(list, c) == CHOOSE k \in DOMAIN list : list[k] = c /\ \A j \in 1..(k - 1) : list[j] # c

Min(a, b) == IF a < b THEN a ELSE b
Max(a, b) == IF a > b THEN a ELSE b

\* s[a:b] for 0 <= a, 0 <= b
Slice(s, a, b) == SubSeq(s, a + 1, Min(b, Len(s)))
\* s[:n]
FirstN(s, n) == SubSeq(s, 1, Min(n, Len(s)))
\* s[-n:]
LastN(s, n) == SubSeq(s, Max(Len(s) - n, 0) + 1, Len(s))

\* re.sub(r'[^\d]', '', s)
DigitsOnly(s) == SelectSeq(s, IsDigit)

LowerChar(c) == IF c \in Range(UpperChars) THEN LowerChars[IndexOf(UpperChars, c)] ELSE c
UpperChar(c) == IF c \in Range(LowerChars) THEN UpperChars[IndexOf(LowerChars, c)] ELSE c
\* str.lower(), str.upper(), str.capitalize()
Lower(s) == [k \in 1..Len(s) |-> LowerChar(s[k])]
Upper(s) == [k \in 1..Len(s) |-> UpperChar(s[k])]
Capitalize(s) == [k \in 1..Len(s) |-> IF k = 1 THEN UpperChar(s[k]) ELSE LowerChar(s[k])]

\* str.replace(ch, '')
Remove(s, ch) == SelectSeq(s, LAMBDA c : c # ch)

\* str.strip()
RECURSIVE LStrip(_)
LStrip(s) == IF s # <<>> /\ Head(s) \in Whitespace THEN LStrip(Tail(s)) ELSE s
RECURSIVE RStrip(_)
RStrip(s) == IF s # <<>> /\ s[Len(s)] \in Whitespace THEN RStrip(SubSeq(s, 1, Len(s) - 1)) ELSE s
Strip(s) == RStrip(LStrip(s))

\* str.split(): the maximal runs of non-whitespace, in order
RECURSIVE SplitFrom(_, _, _)
SplitFrom(s, k, cur) ==
    IF k > Len(s) THEN (IF cur = <<>> THEN <<>> ELSE <<cur>>)
    ELSE IF s[k] \in Whitespace
         THEN (IF cur = <<>> THEN <<>> ELSE <<cur>>) \o SplitFrom(s, k + 1, <<>>)
         ELSE SplitFrom(s, k + 1, Append(cur, s[k]))
Split(s) == SplitFrom(s, 1, <<>>)

\* ''.join(parts)
RECURSIVE Join(_)
Join(parts) == IF parts = <<>> THEN <<>> ELSE Head(parts) \o Join(Tail(parts))

\* int(s) for a str of decimal digits (a leading blank is accepted by int())
RECURSIVE IntOf(_)
IntOf(s) == IF s = <<>> THEN 0
            ELSE IF s[Len(s)] \in Whitespace THEN IntOf(SubSeq(s, 1, Len(s) - 1))
            ELSE 10 * IntOf(SubSeq(s, 1, Len(s) - 1)) + DigitVal(s[Len(s)])

\* str(n) for n >= 0: no leading zeros
RECURSIVE StrOfInt(_)
StrOfInt(n) == IF n < 10 THEN <<AsciiDigits[n + 1]>>
               ELSE Append(StrOfInt(n \div 10), AsciiDigits[(n % 10) + 1])

\* concatenation of a sequence of lists
RECURSIVE Flatten(_)
Flatten(lists) == IF lists = <<>> THEN <<>> ELSE Head(lists) \o Flatten(Tail(lists))

----------------------------------------------------------------------------
(* datetime.strptime, as far as extract_birth_year uses it                 *)

\* the directive regexes of _strptime: the alternatives of each directive in
\* the order the regex engine tries them
StrpAlternatives(directive) ==
    CASE directive = "d" -> <<"3[0-1]", "[1-2]\\d", "0[1-9]", "[1-9]", " [1-9]">>
      [] directive = "m" -> <<"1[0-2]", "0[1-9]", "[1-9]">>
      [] directive = "Y" -> <<"\\d\\d\\d\\d">>

StrpAltLen(alt) == IF alt = "\\d\\d\\d\\d" THEN 4 ELSE IF alt = "[1-9]" THEN 1 ELSE 2

OneToNine == {"1", "2", "3", "4", "5", "6", "7", "8", "9"}

\* does the alternative match s at (1-based) position pos
StrpAltOk(alt, s, pos) ==
    /\ pos + StrpAltLen(alt) - 1 <= Len(s)
    /\ CASE alt = "3[0-1]" -> s[pos] = "3" /\ s[pos + 1] \in {"0", "1"}
         [] alt = "[1-2]\\d" -> s[pos] \in {"1", "2"} /\ IsDigit(s[pos + 1])
         [] alt = "0[1-9]" -> s[pos] = "0" /\ s[pos + 1] \in OneToNine
         [] alt = "[1-9]" -> s[pos] \in OneToNine
         [] alt = " [1-9]" -> s[pos] = " " /\ s[pos + 1] \in OneToNine
         [] alt = "1[0-2]" -> s[pos] = "1" /\ s[pos + 1] \in {"0", "1", "2"}
         [] alt = "\\d\\d\\d\\d" -> \A k \in 0..3 : IsDigit(s[pos + k])

StrpNoMatch == [ok |-> FALSE, end |-> 0, groups |-> <<>>]

\* format_regex.match(data_string): the first match in backtracking order,
\* anchored at the start, not at the end
RECURSIVE StrpMatch(_, _, _)
StrpMatch(fmt, s, pos) ==
    IF fmt = <<>> THEN [ok |-> TRUE, end |-> pos, groups |-> <<>>]
    ELSE LET item == Head(fmt) IN
         IF item \in {"-", "/"}
         THEN IF pos <= Len(s) /\ s[pos] = item
              THEN StrpMatch(Tail(fmt), s, pos + 1)
              ELSE StrpNoMatch
         ELSE LET alts == StrpAlternatives(item)
                  good == {a \in DOMAIN alts :
                              /\ StrpAltOk(alts[a], s, pos)
                              /\ StrpMatch(Tail(fmt), s, pos + StrpAltLen(alts[a])).ok}
              IN IF good = {} THEN StrpNoMatch
                 ELSE LET a == CHOOSE x \in good : \A y \in good : x <= y
                          n == StrpAltLen(alts[a])
                          rest == StrpMatch(Tail(fmt), s, pos + n)
                      IN [ok |-> TRUE, end |-> rest.end,
                          groups |-> <<<<item, SubSeq(s, pos, pos + n - 1)>>>> \o rest.groups]

IsLeap(y) == (y % 4 = 0 /\ y % 100 # 0) \/ y % 400 = 0
DaysInMonth(y, m) == IF m = 2 THEN (IF IsLeap(y) THEN 29 ELSE 28)
                     ELSE IF m \in {4, 6, 9, 11} THEN 30 ELSE 31

StrpGroup(groups, directive) ==
    LET k == CHOOSE x \in DOMAIN groups : groups[x][1] = directive IN IntOf(groups[k][2])

\* datetime.strptime(s, fmt).year, or -1 where strptime raises ValueError
\* (no match, unconverted data remains, year 0, day out of range for month)
strptime_year(s, fmt) ==
    LET found == StrpMatch(fmt, s, 1) IN
    IF ~found.ok \/ found.end # Len(s) + 1 THEN -1
    ELSE LET y == StrpGroup(found.groups, "Y")
             m == StrpGroup(found.groups, "m")
             d == StrpGroup(found.groups, "d")
         IN IF y < 1 \/ d > DaysInMonth(y, m) THEN -1 ELSE y

formats_to_try ==
    << <<"Y", "-", "m", "-", "d">>, <<"d", "-", "m", "-", "Y">>, <<"m", "-", "d", "-", "Y">>,
       <<"Y", "/", "m", "/", "d">>, <<"d", "/", "m", "/", "Y">>, <<"m", "/", "d", "/", "Y">>,
       <<"Y", "m", "d">>, <<"d", "m", "Y">>, <<"m", "d", "Y">> >>

\* re.search(r'(19|20)\d{2}', s): the leftmost match, or None
year_pattern_search(s) ==
    LET hits == {p \in 1..(Len(s) - 3) :
                    /\ <<s[p], s[p + 1]>> \in {<<"1", "9">>, <<"2", "0">>}
                    /\ IsDigit(s[p + 2]) /\ IsDigit(s[p + 3])}
    IN IF hits = {} THEN None
       ELSE LET p == CHOOSE x \in hits : \A y \in hits : x <= y IN SubSeq(s, p, p + 3)

\* PDFParser.extract_birth_year: a str, or None
extract_birth_year(dob) ==
    IF dob = None \/ dob = <<>> THEN None
    ELSE LET dob_digits == DigitsOnly(dob) IN
         IF Len(dob_digits) < 4 THEN None
         ELSE LET parsed == {f \in DOMAIN formats_to_try : strptime_year(dob, formats_to_try[f]) # -1}
              IN IF parsed # {}
                 THEN LET f == CHOOSE x \in parsed : \A y \in parsed : x <= y
                      IN StrOfInt(strptime_year(dob, formats_to_try[f]))
                 ELSE IF year_pattern_search(dob_digits) # None
                      THEN year_pattern_search(dob_digits)
                 ELSE IF IntOf(FirstN(dob_digits, 4)) \in 1900..2100
                      THEN FirstN(dob_digits, 4)
                 ELSE IF IntOf(LastN(dob_digits, 4)) \in 1900..2100
                      THEN LastN(dob_digits, 4)
                 ELSE None

----------------------------------------------------------------------------
(* PDFParser.generate_password_candidates                                  *)

\* str.encode('latin-1') raises UnicodeEncodeError on a code point above U+00FF
Latin1Encodable(s) == \A k \in DOMAIN s : IsLatin1(s[k])

\* for x in xs: out.extend(F(x))
ExtendEach(xs, F(_)) == Flatten([k \in 1..Len(xs) |-> F(xs[k])])

name_parts_of(customer) == Split(Lower(customer.name))
phone_of(customer) == DigitsOnly(customer.phone_number)

\* dob_digits[6:8] + dob_digits[4:6]
ddmm_of(dob_digits) == Slice(dob_digits, 6, 8) \o Slice(dob_digits, 4, 6)
\* dob_digits[6:8] + dob_digits[4:6] + dob_digits[2:4]
ddmmyy_of(dob_digits) == Slice(dob_digits, 6, 8) \o Slice(dob_digits, 4, 6) \o Slice(dob_digits, 2, 4)

\* lines 126-137: candidates.insert(0, primary) on the still empty list, then
\* the four "encoding variations"
PrimaryCandidates(birth_year, phone) ==
    IF birth_year # None /\ Len(phone) >= 4
    THEN LET primary_password == birth_year \o LastN(phone, 4)
         IN <<primary_password>> \o
            <<primary_password, primary_password, primary_password, Strip(primary_password)>>
    ELSE <<>>

\* lines 140-146
YearPhoneCandidates(birth_year, phone) ==
    IF birth_year # None /\ Len(phone) >= 4
    THEN << birth_year \o LastN(phone, 4),
            LastN(birth_year, 2) \o LastN(phone, 4),
            birth_year \o LastN(phone, 6),
            birth_year \o LastN(phone, 8) >>
    ELSE <<>>

\* lines 149-163
LegacyDateCandidates(birth_year, dob_digits) ==
    IF Len(dob_digits) >= 8 /\ Len(dob_digits) = 8
    THEN LET ddmm_alt == Slice(dob_digits, 0, 2) \o Slice(dob_digits, 2, 4)
             ddmmyy_alt == Slice(dob_digits, 0, 2) \o Slice(dob_digits, 2, 4) \o Slice(dob_digits, 6, 8)
         IN << IF birth_year # None THEN birth_year \o ddmm_alt ELSE <<>>,
               IF birth_year # None THEN birth_year \o ddmmyy_alt ELSE <<>> >>
    ELSE <<>>

\* lines 166-180
NameDerivedCandidates(full_name, dob_digits, phone) ==
    IF Len(full_name) >= 4 /\ Len(dob_digits) >= 8
    THEN LET first4 == FirstN(full_name, 4)
             last4 == LastN(full_name, 4)
             ddmm == ddmm_of(dob_digits)
             ddmmyy == ddmmyy_of(dob_digits)
         IN << first4 \o ddmmyy,
               first4 \o ddmm,
               IF Len(phone) >= 4 THEN last4 \o LastN(phone, 4) ELSE <<>>,
               Upper(first4) \o ddmm,
               Upper(first4) \o ddmmyy >>
    ELSE <<>>

\* lines 183-187
CardDerivedCandidates(credit_cards, dob_digits) ==
    LET OfCard(card) == IF card.has_last_four /\ Len(dob_digits) >= 8
                        THEN <<card.card_number_last_four \o ddmm_of(dob_digits)>>
                        ELSE <<>>
    IN ExtendEach(credit_cards, OfCard)

\* lines 190-194
dob_formats_of(dob) == <<Remove(dob, "-"), Remove(dob, "/"), Remove(dob, ".")>>

\* lines 197-203
DateFormatCandidates(dob) ==
    LET OfFmt(fmt) == IF Len(fmt) >= 2 THEN <<fmt, LastN(fmt, 2), LastN(fmt, 4)>> ELSE <<>>
    IN ExtendEach(dob_formats_of(dob), OfFmt)

\* lines 206-212
NameCandidates(name_parts) ==
    LET OfPart(name_part) == IF name_part # <<>>
                             THEN <<name_part, Capitalize(name_part), Upper(name_part)>>
                             ELSE <<>>
    IN ExtendEach(name_parts, OfPart)

\* lines 215-221
PhoneCandidates(phone) ==
    IF Len(phone) >= 4
    THEN << phone,
            LastN(phone, 4),
            IF Len(phone) >= 6 THEN LastN(phone, 6) ELSE <<>>,
            IF Len(phone) >= 8 THEN LastN(phone, 8) ELSE <<>> >>
    ELSE <<>>

\* lines 224-234
NameDateCandidates(name_parts, dob) ==
    LET OfPart(name_part) ==
            LET OfFmt(dob_format) ==
                    IF dob_format # <<>>
                    THEN << name_part \o dob_format,
                            Capitalize(name_part) \o dob_format,
                            dob_format \o name_part,
                            IF Len(dob_format) >= 4 THEN name_part \o LastN(dob_format, 4) ELSE <<>>,
                            IF Len(dob_format) >= 2 THEN name_part \o LastN(dob_format, 2) ELSE <<>> >>
                    ELSE <<>>
            IN IF name_part # <<>> THEN ExtendEach(dob_formats_of(dob), OfFmt) ELSE <<>>
    IN ExtendEach(name_parts, OfPart)

\* lines 237-243
NamePhoneCandidates(name_parts, phone) ==
    LET OfPart(name_part) ==
            IF name_part # <<>> /\ Len(phone) >= 4
            THEN << name_part \o LastN(phone, 4),
                    Capitalize(name_part) \o LastN(phone, 4),
                    LastN(phone, 4) \o name_part >>
            ELSE <<>>
    IN ExtendEach(name_parts, OfPart)

\* lines 246-260
BirthYearCandidates(birth_year, name_parts) ==
    IF birth_year # None
    THEN LET OfPart(name_part) ==
                 IF name_part # <<>>
                 THEN << birth_year \o name_part,
                         name_part \o birth_year,
                         LastN(birth_year, 2) \o name_part,
                         name_part \o LastN(birth_year, 2) >>
                 ELSE <<>>
         IN <<birth_year, LastN(birth_year, 2)>> \o ExtendEach(name_parts, OfPart)
    ELSE <<>>

\* the list as built by lines 109-260, before the clean-up of lines 263-264
RawCandidates(customer) ==
    LET name_parts == name_parts_of(customer)
        full_name == Join(name_parts)
        phone == phone_of(customer)
        dob == customer.date_of_birth
        birth_year == extract_birth_year(dob)
        dob_digits == DigitsOnly(dob)
    IN PrimaryCandidates(birth_year, phone)
       \o YearPhoneCandidates(birth_year, phone)
       \o LegacyDateCandidates(birth_year, dob_digits)
       \o NameDerivedCandidates(full_name, dob_digits, phone)
       \o CardDerivedCandidates(customer.credit_cards, dob_digits)
       \o DateFormatCandidates(dob)
       \o NameCandidates(name_parts)
       \o PhoneCandidates(phone)
       \o NameDateCandidates(name_parts, dob)
       \o NamePhoneCandidates(name_parts, phone)
       \o BirthYearCandidates(birth_year, name_parts)

\* a variant that forgets the strip: [c for c in candidates if c]
RemoveBlank_NoStrip(candidates) == SelectSeq(candidates, LAMBDA c : c # <<>>)

\* line 263: [c for c in candidates if c and c.strip()]
RemoveBlank(candidates) == SelectSeq(candidates, LAMBDA c : c # <<>> /\ Strip(c) # <<>>)

\* line 264: list(dict.fromkeys(candidates)), keys in order of first insertion
RECURSIVE DictFromKeys(_, _)
DictFromKeys(candidates, seen) ==
    IF candidates = <<>> THEN <<>>
    ELSE IF Head(candidates) \in seen THEN DictFromKeys(Tail(candidates), seen)
    ELSE <<Head(candidates)>> \o DictFromKeys(Tail(candidates), seen \cup {Head(candidates)})

\* the exception generate_password_candidates raises on this profile, "" if none
generate_raises(customer) ==
    IF customer.name = None THEN "AttributeError"                       \* line 110
    ELSE IF customer.phone_number = None THEN "TypeError"               \* line 112
    ELSE IF /\ extract_birth_year(customer.date_of_birth) # None        \* line 135
            /\ Len(phone_of(customer)) >= 4
            /\ ~Latin1Encodable(extract_birth_year(customer.date_of_birth)
                                \o LastN(phone_of(customer), 4))
         THEN "UnicodeEncodeError"
    ELSE IF customer.date_of_birth = None THEN "TypeError"              \* line 149
    ELSE ""

\* PDFParser.generate_password_candidates: the returned list, or the exception
generate_password_candidates(customer) ==
    IF generate_raises(customer) # ""
    THEN [raised |-> generate_raises(customer), candidates |-> <<>>]
    ELSE [raised |-> "", candidates |-> DictFromKeys(RemoveBlank(RawCandidates(customer)), {})]

----------------------------------------------------------------------------
(* re.search with re.IGNORECASE, as far as ReminderService uses it          *)

\* the regular expressions of the source as syntax trees
Lit(c) == [t |-> "lit", c |-> c]                       \* one literal character
Cls(name) == [t |-> "cls", c |-> name]                 \* \d, \s or \w
OneOf(set) == [t |-> "in", c |-> set]                  \* [...]
Cat(rs) == [t |-> "seq", rs |-> rs]                    \* r1 r2 ...
Alt(rs) == [t |-> "alt", rs |-> rs]                    \* r1|r2|...
Rep(r, lo, hi) == [t |-> "rep", r |-> r, lo |-> lo, hi |-> hi]   \* greedy r{lo,hi}
WordBoundary == [t |-> "wb"]                           \* \b
Text(cs) == Cat([k \in 1..Len(cs) |-> Lit(cs[k])])     \* a literal word
Unbounded == 1000                                      \* the upper bound of * and +
Opt(r) == Rep(r, 0, 1)                                 \* r?
Star(r) == Rep(r, 0, Unbounded)                        \* r*
Plus(r) == Rep(r, 1, Unbounded)                        \* r+

IsWordChar(c) == c \in Range(LowerChars) \cup Range(UpperChars) \cup {"_"} \/ IsDigit(c)
InClass(name, c) ==
    CASE name = "d" -> IsDigit(c)
      [] name = "s" -> c \in Whitespace
      [] name = "w" -> IsWordChar(c)

\* \b at position pos (the gap before s[pos])
AtWordBoundary(s, pos) ==
    LET before == pos > 1 /\ IsWordChar(s[pos - 1])
        after == pos <= Len(s) /\ IsWordChar(s[pos])
    IN before # after

\* first occurrences only, order kept
RECURSIVE Dedup(_, _)
Dedup(list, seen) ==
    IF list = <<>> THEN <<>>
    ELSE IF Head(list) \in seen THEN Dedup(Tail(list), seen)
    ELSE <<Head(list)>> \o Dedup(Tail(list), seen \cup {Head(list)})

\* the positions at which a match of r that starts at pos can end, in the
\* order in which the backtracking matcher reaches them
RECURSIVE Ends(_, _, _)
RECURSIVE SeqEnds(_, _, _)
RECURSIVE RepEnds(_, _, _, _, _)
RECURSIVE RepMore(_, _, _, _, _)
Ends(r, s, pos) ==
    CASE r.t = "lit" -> IF pos <= Len(s) /\ LowerChar(s[pos]) = LowerChar(r.c)
                        THEN <<pos + 1>> ELSE <<>>
      [] r.t = "cls" -> IF pos <= Len(s) /\ InClass(r.c, s[pos]) THEN <<pos + 1>> ELSE <<>>
      [] r.t = "in" -> IF pos <= Len(s) /\ s[pos] \in r.c THEN <<pos + 1>> ELSE <<>>
      [] r.t = "wb" -> IF AtWordBoundary(s, pos) THEN <<pos>> ELSE <<>>
      [] r.t = "seq" -> SeqEnds(r.rs, s, <<pos>>)
      [] r.t = "alt" -> Dedup(Flatten([k \in 1..Len(r.rs) |-> Ends(r.rs[k], s, pos)]), {})
      [] r.t = "rep" -> RepEnds(r.r, s, pos, r.lo, r.hi)
SeqEnds(rs, s, starts) ==
    IF rs = <<>> THEN starts
    ELSE SeqEnds(Tail(rs), s,
                 Dedup(Flatten([k \in 1..Len(starts) |-> Ends(Head(rs), s, starts[k])]), {}))
\* greedy: one more repetition is tried before stopping at pos
RepEnds(r, s, pos, lo, hi) ==
    Dedup((IF hi > 0
           THEN RepMore(r, s, SelectSeq(Ends(r, s, pos), LAMBDA x : x # pos), lo, hi)
           ELSE <<>>)
          \o (IF lo <= 0 THEN <<pos>> ELSE <<>>), {})
\* once: where one repetition from pos can end
RepMore(r, s, once, lo, hi) ==
    Flatten([k \in 1..Len(once) |-> RepEnds(r, s, once[k], lo - 1, hi - 1)])

\* a pattern with its one capturing group: what precedes the group, the
\* group, what follows it
Pattern(pre, cap, post) == [pre |-> pre, cap |-> cap, post |-> post]
Empty == Cat(<<>>)

\* the spans <<from, to>> group 1 can take when what precedes it ends at one
\* of e1s, in backtracking order
Pairs(e1, e2s) == [j \in 1..Len(e2s) |-> <<e1, e2s[j]>>]
SpansFrom(p, s, e1s) ==
    Flatten([k \in 1..Len(e1s) |-> Pairs(e1s[k], Ends(p.cap, s, e1s[k]))])
FirstSpan(spans) == IF spans = <<>> THEN <<>> ELSE Head(spans)

\* re.match at start: <<from, to>> of group 1 in the first match, <<>> if none
MatchAt(p, s, start) ==
    FirstSpan(SelectSeq(SpansFrom(p, s, Ends(p.pre, s, start)),
                        LAMBDA sp : Ends(p.post, s, sp[2]) # <<>>))

\* the match object of the match at the leftmost of the start positions hits
NoMatch == [found |-> FALSE, group1 |-> <<>>]
Lowest(set) == CHOOSE x \in set : \A y \in set : x <= y
GroupOf(s, span) == [found |-> TRUE, group1 |-> SubSeq(s, span[1], span[2] - 1)]
LeftmostMatch(p, s, hits) ==
    IF hits = {} THEN NoMatch ELSE GroupOf(s, MatchAt(p, s, Lowest(hits)))

\* re.search(p, s, re.IGNORECASE): [found, group1] of the leftmost match
search(p, s) == LeftmostMatch(p, s, {st \in 1..(Len(s) + 1) : MatchAt(p, s, st) # <<>>})

----------------------------------------------------------------------------
(* ReminderService: the pattern lists of __init__                          *)

\* (?:AED|DHS)
Currency == Alt(<<Text(<<"A", "E", "D">>), Text(<<"D", "H", "S">>)>>)
\* \d+(?:\.\d{1,2})?
Amount == Cat(<<Plus(Cls("d")), Opt(Cat(<<Lit("."), Rep(Cls("d"), 1, 2)>>))>>)
\* \d{1,2}[\/\-]\d{1,2}[\/\-]\d{2,4}
NumericDate == Cat(<<Rep(Cls("d"), 1, 2), OneOf({"/", "-"}), Rep(Cls("d"), 1, 2),
                     OneOf({"/", "-"}), Rep(Cls("d"), 2, 4)>>)
\* \w+\s+\d{1,2},?\s+\d{4}
MonthNameDate == Cat(<<Plus(Cls("w")), Plus(Cls("s")), Rep(Cls("d"), 1, 2), Opt(Lit(",")),
                       Plus(Cls("s")), Rep(Cls("d"), 4, 4)>>)
\* \d{1,3}(?:,\d{3})*(?:\.\d{2})?
Money == Cat(<<Rep(Cls("d"), 1, 3), Star(Cat(<<Lit(","), Rep(Cls("d"), 3, 3)>>)),
               Opt(Cat(<<Lit("."), Rep(Cls("d"), 2, 2)>>))>>)
Spaces == Plus(Cls("s"))        \* \s+
OptSpaces == Star(Cls("s"))     \* \s*
OptColon == Opt(Lit(":"))       \* :?

\* lines 10-20, in list order
due_date_patterns ==
    << \* (?:AED|DHS)\s+\d+(?:\.\d{1,2})?\s+payment\s+due:?\s*(<numeric date>)
       Pattern(Cat(<<Currency, Spaces, Amount, Spaces,
                     Text(<<"p", "a", "y", "m", "e", "n", "t">>), Spaces, Text(<<"d", "u", "e">>),
                     OptColon, OptSpaces>>),
               NumericDate, Empty),
       \* (?:AED|DHS)\s+\d+(?:\.\d{1,2})?\s+due\s+date:?\s*(<numeric date>)
       Pattern(Cat(<<Currency, Spaces, Amount, Spaces, Text(<<"d", "u", "e">>),
                     Spaces, Text(<<"d", "a", "t", "e">>), OptColon, OptSpaces>>),
               NumericDate, Empty),
       \* (?:AED|DHS)\s+\d+(?:\.\d{1,2})?\s+due\s+on:?\s*(<numeric date>)
       Pattern(Cat(<<Currency, Spaces, Amount, Spaces, Text(<<"d", "u", "e">>),
                     Spaces, Text(<<"o", "n">>), OptColon, OptSpaces>>),
               NumericDate, Empty),
       \* (?:AED|DHS)\s+\d+(?:\.\d{1,2})?\s+payment\s+due\s+(\w+\s+\d{1,2},?\s+\d{4})
       Pattern(Cat(<<Currency, Spaces, Amount, Spaces,
                     Text(<<"p", "a", "y", "m", "e", "n", "t">>), Spaces, Text(<<"d", "u", "e">>),
                     Spaces>>),
               MonthNameDate, Empty),
       \* (?:AED|DHS)\s+\d+(?:\.\d{1,2})?\s+due\s+(\w+\s+\d{1,2},?\s+\d{4})
       Pattern(Cat(<<Currency, Spaces, Amount, Spaces, Text(<<"d", "u", "e">>), Spaces>>),
               MonthNameDate, Empty),
       \* (<numeric date>)\s+due\s+for\s+(?:AED|DHS)\s+\d+(?:\.\d{1,2})?
       Pattern(Empty, NumericDate,
               Cat(<<Spaces, Text(<<"d", "u", "e">>),
                     Spaces, Text(<<"f", "o", "r">>), Spaces, Currency, Spaces, Amount>>)),
       \* \d+(?:\.\d{1,2})?\s+(?:AED|DHS)\s+payment\s+due:?\s*(<numeric date>)
       Pattern(Cat(<<Amount, Spaces, Currency, Spaces,
                     Text(<<"p", "a", "y", "m", "e", "n", "t">>), Spaces, Text(<<"d", "u", "e">>),
                     OptColon, OptSpaces>>),
               NumericDate, Empty),
       \* \d+(?:\.\d{1,2})?\s+(?:AED|DHS)\s+due\s+date:?\s*(<numeric date>)
       Pattern(Cat(<<Amount, Spaces, Currency, Spaces, Text(<<"d", "u", "e">>),
                     Spaces, Text(<<"d", "a", "t", "e">>), OptColon, OptSpaces>>),
               NumericDate, Empty) >>

\* <word>\s+<word>, the label of an amount
Label(w1, w2) == Cat(<<Text(w1), Spaces, Text(w2)>>)
\* <label>:?\s*(?:AED|DHS)\s*(<money>)
PrefixMoney(label) == Pattern(Cat(<<label, OptColon, OptSpaces, Currency, OptSpaces>>), Money, Empty)
\* <label>:?\s*(<money>)\s*(?:AED|DHS)
SuffixMoney(label) == Pattern(Cat(<<label, OptColon, OptSpaces>>), Money, Cat(<<OptSpaces, Currency>>))

\* lines 22-32, in list order
minimum_payment_patterns ==
    << \* minimum\s+payment:?\s*(?:AED|DHS)\s*(<money>)
       PrefixMoney(Label(<<"m", "i", "n", "i", "m", "u", "m">>, <<"p", "a", "y", "m", "e", "n", "t">>)),
       \* min\s+payment:?\s*(?:AED|DHS)\s*(<money>)
       PrefixMoney(Label(<<"m", "i", "n">>, <<"p", "a", "y", "m", "e", "n", "t">>)),
       \* minimum\s+due:?\s*(?:AED|DHS)\s*(<money>)
       PrefixMoney(Label(<<"m", "i", "n", "i", "m", "u", "m">>, <<"d", "u", "e">>)),
       \* amount\s+due:?\s*(?:AED|DHS)\s*(<money>)
       PrefixMoney(Label(<<"a", "m", "o", "u", "n", "t">>, <<"d", "u", "e">>)),
       \* minimum\s+payment:?\s*(<money>)\s*(?:AED|DHS)
       SuffixMoney(Label(<<"m", "i", "n", "i", "m", "u", "m">>, <<"p", "a", "y", "m", "e", "n", "t">>)),
       \* min\s+payment:?\s*(<money>)\s*(?:AED|DHS)
       SuffixMoney(Label(<<"m", "i", "n">>, <<"p", "a", "y", "m", "e", "n", "t">>)),
       \* minimum\s+due:?\s*(<money>)\s*(?:AED|DHS)
       SuffixMoney(Label(<<"m", "i", "n", "i", "m", "u", "m">>, <<"d", "u", "e">>)),
       \* amount\s+due:?\s*(<money>)\s*(?:AED|DHS)
       SuffixMoney(Label(<<"a", "m", "o", "u", "n", "t">>, <<"d", "u", "e">>)) >>

\* lines 34-44, in list order
balance_patterns ==
    << \* current\s+balance:?\s*(?:AED|DHS)\s*(<money>)
       PrefixMoney(Label(<<"c", "u", "r", "r", "e", "n", "t">>, <<"b", "a", "l", "a", "n", "c", "e">>)),
       \* new\s+balance:?\s*(?:AED|DHS)\s*(<money>)
       PrefixMoney(Label(<<"n", "e", "w">>, <<"b", "a", "l", "a", "n", "c", "e">>)),
       \* balance:?\s*(?:AED|DHS)\s*(<money>)
       PrefixMoney(Text(<<"b", "a", "l", "a", "n", "c", "e">>)),
       \* statement\s+balance:?\s*(?:AED|DHS)\s*(<money>)
       PrefixMoney(Label(<<"s", "t", "a", "t", "e", "m", "e", "n", "t">>, <<"b", "a", "l", "a", "n", "c", "e">>)),
       \* current\s+balance:?\s*(<money>)\s*(?:AED|DHS)
       SuffixMoney(Label(<<"c", "u", "r", "r", "e", "n", "t">>, <<"b", "a", "l", "a", "n", "c", "e">>)),
       \* new\s+balance:?\s*(<money>)\s*(?:AED|DHS)
       SuffixMoney(Label(<<"n", "e", "w">>, <<"b", "a", "l", "a", "n", "c", "e">>)),
       \* balance:?\s*(<money>)\s*(?:AED|DHS)
       SuffixMoney(Text(<<"b", "a", "l", "a", "n", "c", "e">>)),
       \* statement\s+balance:?\s*(<money>)\s*(?:AED|DHS)
       SuffixMoney(Label(<<"s", "t", "a", "t", "e", "m", "e", "n", "t">>, <<"b", "a", "l", "a", "n", "c", "e">>)) >>

\* r'\bDHS\b' and r'\bAED\b' of lines 48 and 50
dhs_pattern == Pattern(Cat(<<WordBoundary, Text(<<"D", "H", "S">>), WordBoundary>>), Empty, Empty)
aed_pattern == Pattern(Cat(<<WordBoundary, Text(<<"A", "E", "D">>), WordBoundary>>), Empty, Empty)

----------------------------------------------------------------------------
(* ReminderService: field extraction                                       *)

\* split at the characters of seps
RECURSIVE SplitAt(_, _, _)
SplitAt(s, seps, cur) ==
    IF s = <<>> THEN <<cur>>
    ELSE IF Head(s) \in seps THEN <<cur>> \o SplitAt(Tail(s), seps, <<>>)
    ELSE SplitAt(Tail(s), seps, Append(cur, Head(s)))

Date(y, m, d) == [y |-> y, m |-> m, d |-> d]
\* None where a date is expected, None where an amount is expected
NoDate == Date(0, 0, 0)
NoAmount == -1
\* float() raising ValueError
ValueError == -2
ValidDate(y, m, d) == y >= 1 /\ m \in 1..12 /\ d >= 1 /\ d <= DaysInMonth(y, m)

MonthNames ==
    << <<"j", "a", "n", "u", "a", "r", "y">>,
       <<"f", "e", "b", "r", "u", "a", "r", "y">>,
       <<"m", "a", "r", "c", "h">>,
       <<"a", "p", "r", "i", "l">>,
       <<"m", "a", "y">>,
       <<"j", "u", "n", "e">>,
       <<"j", "u", "l", "y">>,
       <<"a", "u", "g", "u", "s", "t">>,
       <<"s", "e", "p", "t", "e", "m", "b", "e", "r">>,
       <<"o", "c", "t", "o", "b", "e", "r">>,
       <<"n", "o", "v", "e", "m", "b", "e", "r">>,
       <<"d", "e", "c", "e", "m", "b", "e", "r">> >>
MonthOfName(word) ==
    LET hits == {k \in 1..12 : Lower(word) = MonthNames[k] \/ Lower(word) = FirstN(MonthNames[k], 3)}
    IN IF hits = {} THEN 0 ELSE CHOOSE k \in hits : TRUE

\* the year dateparser reads from 2 or 4 digits, 0 for any other length
YearOfDigits(ds) == IF Len(ds) = 4 THEN IntOf(ds)
                    ELSE IF Len(ds) = 2 THEN 2000 + IntOf(ds)
                    ELSE 0

\* dateparser.parse(date_str) on the substrings the due-date patterns
\* capture: a date, or None (NoDate) where no reading of the substring is a calendar
\* date. A numeric date is read month first and, where that gives no date,
\* day first; a month-name date needs the name (or 3-letter form) of a month.
dateparser_parse(date_str) ==
    LET numeric == SplitAt(date_str, {"/", "-"}, <<>>) IN
    IF Len(numeric) = 3
    THEN LET a == IntOf(numeric[1])
             b == IntOf(numeric[2])
             y == YearOfDigits(numeric[3])
         IN IF ValidDate(y, a, b) THEN Date(y, a, b)
            ELSE IF ValidDate(y, b, a) THEN Date(y, b, a)
            ELSE NoDate
    ELSE LET words == Split(Remove(date_str, ","))
         IN IF Len(words) = 3 /\ ValidDate(IntOf(words[3]), MonthOfName(words[1]), IntOf(words[2]))
            THEN Date(IntOf(words[3]), MonthOfName(words[1]), IntOf(words[2]))
            ELSE NoDate

\* str(n) zero-padded to width w
RECURSIVE ZeroPad(_, _)
ZeroPad(ds, w) == IF Len(ds) >= w THEN ds ELSE ZeroPad(<<"0">> \o ds, w)

\* date.strftime('%Y-%m-%d')
strftime_ymd(date) ==
    ZeroPad(StrOfInt(date.y), 4) \o <<"-">> \o ZeroPad(StrOfInt(date.m), 2)
        \o <<"-">> \o ZeroPad(StrOfInt(date.d), 2)

\* float(group.replace(',', '')) of a captured amount, in hundredths, or
\* ValueError
float_of(group) ==
    LET plain == Remove(group, ",")
        parts == SplitAt(plain, {"."}, <<>>)
        AllDigits(ds) == \A k \in 1..Len(ds) : IsDigit(ds[k])
    IN IF Len(parts) = 1 /\ parts[1] # <<>> /\ AllDigits(parts[1])
       THEN 100 * IntOf(parts[1])
       ELSE IF /\ Len(parts) = 2 /\ AllDigits(parts[1]) /\ AllDigits(parts[2])
               /\ Len(parts[1]) + Len(parts[2]) > 0 /\ Len(parts[2]) <= 2
       THEN 100 * IntOf(parts[1])
            + (IF Len(parts[2]) = 1 THEN 10 * IntOf(parts[2]) ELSE IntOf(parts[2]))
       ELSE ValueError

\* a variant that gives up at the first pattern that matches
RECURSIVE due_date_from_HardMiss(_, _)
due_date_from_HardMiss(text, k) ==
    IF k > Len(due_date_patterns) THEN NoDate
    ELSE LET match == search(due_date_patterns[k], text) IN
         IF match.found THEN dateparser_parse(match.group1)
         ELSE due_date_from_HardMiss(text, k + 1)

\* "return value" inside the loop when value is not none, else the rest of
\* the loop
ReturnOrContinue(value, none, rest) == IF value # none THEN value ELSE rest

\* lines 58-62: what the loop body makes of one pattern's match
parse_match(match) == IF match.found THEN dateparser_parse(match.group1) ELSE NoDate

\* lines 55-63: pattern k is tried when none of the patterns before it gave
\* a date
RECURSIVE due_date_from(_, _)
due_date_from(text, k) ==
    IF k > Len(due_date_patterns) THEN NoDate
    ELSE ReturnOrContinue(parse_match(search(due_date_patterns[k], text)), NoDate,
                          due_date_from(text, k + 1))

\* ReminderService.extract_due_date_from_text
extract_due_date_from_text(text) == due_date_from(text, 1)

\* lines 68-72 and 78-82: what the loop body makes of one pattern's match
float_match(match) ==
    IF match.found /\ float_of(match.group1) # ValueError
    THEN float_of(match.group1) ELSE NoAmount

\* lines 65-73 and 75-83: the amount of the first pattern that matches
RECURSIVE amount_from(_, _, _)
amount_from(patterns, text, k) ==
    IF k > Len(patterns) THEN NoAmount
    ELSE ReturnOrContinue(float_match(search(patterns[k], text)), NoAmount,
                          amount_from(patterns, text, k + 1))

\* ReminderService.extract_minimum_payment_from_text
extract_minimum_payment_from_text(text) == amount_from(minimum_payment_patterns, text, 1)

\* ReminderService.extract_balance_from_text
extract_balance_from_text(text) == amount_from(balance_patterns, text, 1)

S_AED == <<"A", "E", "D">>
S_DHS == <<"D", "H", "S">>

\* ReminderService.extract_currency_code_from_text
extract_currency_code_from_text(text) ==
    IF search(dhs_pattern, text).found THEN S_DHS
    ELSE IF search(aed_pattern, text).found THEN S_AED
    ELSE S_AED

\* the four locals of update_credit_card_info, lines 86-89
Extraction(text) ==
    [due_date |-> extract_due_date_from_text(text),
     minimum_payment |-> extract_minimum_payment_from_text(text),
     current_balance |-> extract_balance_from_text(text),
     currency_code |-> extract_currency_code_from_text(text)]

\* Python truth of an Optional[float]: None and 0.0 are false
Truthy(amount) == amount # NoAmount /\ amount # 0

\* lines 91-104: the record after the assignments and the commit, x being
\* the four extracted values
StoreExtraction(credit_card, x) ==
    [credit_card EXCEPT
        !.due_date = IF x.due_date # NoDate THEN strftime_ymd(x.due_date) ELSE @,
        !.minimum_payment = IF Truthy(x.minimum_payment) THEN x.minimum_payment ELSE @,
        !.current_balance = IF Truthy(x.current_balance) THEN x.current_balance ELSE @,
        !.currency_code = IF credit_card.has_currency_code THEN x.currency_code ELSE @]

----------------------------------------------------------------------------
(* State                                                                   *)

VARIABLES
    customer,             \* the Customer record handed to PDFParser
    gen_called,           \* generate_password_candidates has been called on customer
    gen_out,              \* what that call produced: [raised, candidates]
    \* ---- one invocation of PDFParser.parse_pdf ----
    content_type,         \* file.content_type
    pc,                   \* position of the invocation
    e,                    \* the exception caught at line 369: "direct", "ocr" or ""
    password_candidates,  \* local of try_password_protected_pdf
    i,                    \* enumerate index of the candidate loop
    result,               \* the returned text, once pc = "returned"
    exc,                  \* the exception that left parse_pdf, once pc = "raised"
    password_used,        \* the password named by the SUCCESS line, or None
    \* ---- what has happened in this invocation ----
    via,                  \* the stage whose text was returned
    stage1_text,          \* the text stage 1 extracted, None if it has not or failed
    n_direct,             \* calls of extract_text_with_pymupdf
    n_ocr,                \* calls of extract_text_with_ocr
    n_recover,            \* calls of try_password_protected_pdf
    tried,                \* ranks of the candidates tried, in the order tried
    first_good,           \* lowest rank whose trial gave non-blank text, 0 if none
    good_text,            \* the text that trial gave
    last_outcome,         \* what the latest candidate trial ran into
    \* ---- ReminderService on one credit-card row ----
    credit_card,          \* the CreditCard row
    n_updates,            \* calls of update_credit_card_info so far
    extracted_text,       \* the text of the latest call
    extracted,            \* the four values the latest call extracted
    \* ---- ReminderService: one payoff simulation ----
    sim,                  \* the arguments: [balance, payment, monthly_rate]
    pay_pc,               \* position in the two calls of lines 303-304
    months,               \* local of _calculate_payoff_time
    remaining,            \* local of the function that is running
    total_interest,       \* local of _calculate_total_interest
    n_accruals,           \* interest accruals summed into total_interest so far
    months_result,        \* what _calculate_payoff_time returned
    interest_result,      \* what _calculate_total_interest returned
    \* ---- ReminderService: the credit-card and reminder tables ----
    cards,                \* the CreditCard rows, in the order a query returns them
    today,                \* datetime.now().date()
    upcoming,             \* what the latest get_upcoming_due_dates returned
    overdue,              \* what the latest get_overdue_payments returned
    reminders,            \* the PaymentReminder rows, in insertion order
    call,                 \* the latest call on the reminder table and its argument
    returned,             \* what that call returned
    n_calls               \* calls on the reminder table so far

vars_gen == <<customer, gen_called, gen_out>>
vars_pipe == <<content_type, pc, e, password_candidates, i, result, exc, password_used,
               via, stage1_text, n_direct, n_ocr, n_recover, tried, first_good, good_text,
               last_outcome>>
vars_card == <<credit_card, n_updates, extracted_text, extracted>>
vars_pay == <<sim, pay_pc, months, remaining, total_interest, n_accruals, months_result,
              interest_result>>
vars_rem == <<cards, today, upcoming, overdue, reminders, call, returned, n_calls>>
vars_service == <<vars_card, vars_pay, vars_rem>>
vars == <<vars_gen, vars_pipe, vars_service>>

\* a card with the card_number_last_four attribute
Card(last_four) == [has_last_four |-> TRUE, card_number_last_four |-> last_four]
\* an object in credit_cards without that attribute
CardWithoutLastFour == [has_last_four |-> FALSE, card_number_last_four |-> <<>>]

Customer(name, phone_number, date_of_birth, credit_cards) ==
    [name |-> name, phone_number |-> phone_number,
     date_of_birth |-> date_of_birth, credit_cards |-> credit_cards]

\* the profile of test_password_generation
JohnDoe == Customer(<<"J", "o", "h", "n", " ", "D", "o", "e">>,
                    <<"0", "5", "0", " ", "1", "2", "3", " ", "4", "5", "6", "7">>,
                    <<"1", "5", "/", "0", "3", "/", "1", "9", "8", "0">>,
                    <<>>)

SampleNames ==
    { <<"J", "o", "h", "n", " ", "D", "o", "e">>,
      <<"A", "l">>,
      <<>>,
      <<"a", "l", " ", "A", "L">>,
      None }
SamplePhones ==
    { <<"0", "5", "0", " ", "1", "2", "3", " ", "4", "5", "6", "7">>,
      <<"1", "2", "3">>,
      <<>>,
      <<"1", "9", "8", "0">>,
      <<"ar0", "ar5", "ar0", " ", "ar1", "ar2", "ar3", " ", "ar4", "ar5", "ar6", "ar7">>,
      None }
SampleDobs ==
    { <<"1", "5", "/", "0", "3", "/", "1", "9", "8", "0">>,
      <<"1", "9", "8", "0", "-", "0", "3", "-", "1", "5">>,
      <<>>,
      <<"a", "b", "c">>,
      <<"3", "1", "/", "0", "2", "/", "1", "9", "8", "0">>,
      <<"0", "9", "8", "0", "-", "0", "3", "-", "1", "5">>,
      <<"1", "9", "8", "0", "0", "3", "1", "5">>,
      <<" ", " ">>,
      <<"8", "0">>,
      <<"1", "2", "3", "1", "9", "8", "0">>,
      None }
SampleCardLists ==
    { <<>>,
      <<Card(<<"4", "5", "6", "7">>)>>,
      <<CardWithoutLastFour, Card(<<"1", "5", "0", "3">>)>> }

GenProfiles ==
    {Customer(n, ph, d, cs) : n \in SampleNames, ph \in SamplePhones,
                              d \in SampleDobs, cs \in SampleCardLists}

GenIdle == [raised |-> "", candidates |-> <<>>]

----------------------------------------------------------------------------
(* The candidate generator on its own                                      *)

\* parse_pdf is not running
PipeIdle ==
    /\ content_type = "application/pdf"
    /\ pc = "idle"
    /\ e = ""
    /\ password_candidates = <<>>
    /\ i = 0
    /\ result = None
    /\ exc = ""
    /\ password_used = None
    /\ via = ""
    /\ stage1_text = None
    /\ n_direct = 0
    /\ n_ocr = 0
    /\ n_recover = 0
    /\ tried = <<>>
    /\ first_good = 0
    /\ good_text = None
    /\ last_outcome = ""

\* a row nothing is known about yet
FreshCard ==
    [due_date |-> None, minimum_payment |-> NoAmount, current_balance |-> NoAmount,
     currency_code |-> None, has_currency_code |-> TRUE]

NoExtraction ==
    [due_date |-> NoDate, minimum_payment |-> NoAmount, current_balance |-> NoAmount,
     currency_code |-> None]

\* update_credit_card_info has not been called
CardIdle ==
    /\ credit_card = FreshCard
    /\ n_updates = 0
    /\ extracted_text = <<>>
    /\ extracted = NoExtraction

\* a payoff simulation: amounts are fixed-point numbers in ten-thousandths of
\* a currency unit, the monthly rate is the fraction num/den
Rate(num, den) == [num |-> num, den |-> den]
Simulation(balance, payment, monthly_rate) ==
    [balance |-> balance, payment |-> payment, monthly_rate |-> monthly_rate]

\* no payoff simulation is running
PayIdle ==
    /\ sim = Simulation(0, 0, Rate(0, 1))
    /\ pay_pc = "idle"
    /\ months = 0
    /\ remaining = 0
    /\ total_interest = 0
    /\ n_accruals = 0
    /\ months_result = 0
    /\ interest_result = 0

\* a query that has not been made
NotCalled == [called |-> FALSE, days_ahead |-> 0, list |-> <<>>]
NoCall == [op |-> "", arg |-> 0]

\* a PaymentReminder row
Reminder(id, customer_id, credit_card_id, due_date, amount, reminder_sent) ==
    [id |-> id, customer_id |-> customer_id, credit_card_id |-> credit_card_id,
     due_date |-> due_date, amount |-> amount, reminder_sent |-> reminder_sent]
\* no row: what a call returns when it returns None
NoReminder == Reminder(0, 0, 0, NoDate, 0, FALSE)
\* how a call on the reminder table ended: the exception it raised, "" if
\* none, and the row it returned
Returned(raised, reminder) == [raised |-> raised, reminder |-> reminder]

\* the credit-card and reminder tables are not in use
RemIdle ==
    /\ cards = <<>>
    /\ today = NoDate
    /\ upcoming = NotCalled
    /\ overdue = NotCalled
    /\ reminders = <<>>
    /\ call = NoCall
    /\ returned = Returned("", NoReminder)
    /\ n_calls = 0

\* ReminderService is not in use
ServiceIdle == CardIdle /\ PayIdle /\ RemIdle

InitGen ==
    /\ customer \in GenProfiles
    /\ gen_called = FALSE
    /\ gen_out = GenIdle
    /\ PipeIdle
    /\ ServiceIdle

\* one call of generate_password_candidates(customer)
CallGenerate ==
    /\ ~gen_called
    /\ gen_called' = TRUE
    /\ gen_out' = generate_password_candidates(customer)
    /\ UNCHANGED <<customer, vars_pipe, vars_service>>

NextGen == CallGenerate

SpecGen == InitGen /\ [][NextGen]_vars

----------------------------------------------------------------------------
(* PDFParser.parse_pdf and the stages it calls                             *)

\* bound on the pages of a document
MaxPages == 2

\* what one page yields: nothing, white space only, or text
PageTexts == {<<>>, <<" ">>, <<"x">>}
PageLists == UNION {[1..n -> PageTexts] : n \in 0..MaxPages}

\* text_content = ""; for page in ...: text_content += <page text> + "\n"
TextOfPages(pages) == Flatten([k \in 1..Len(pages) |-> pages[k] \o <<"\n">>])

\* not text_content.strip()
IsBlank(text) == Strip(text) = <<>>

\* extract_text_with_pymupdf / extract_text_with_ocr: the text of the pages,
\* or HTTPException(400) for any fault of the library underneath
Raises == [raises |-> TRUE, pages |-> <<>>]
Yields(pages) == [raises |-> FALSE, pages |-> pages]
ExtractionOutcomes == {Raises} \cup {Yields(pages) : pages \in PageLists}

\* what the libraries do with one candidate password (lines 280-313)
Trial(pikepdf, pike_pages, fitz, fitz_pages) ==
    [pikepdf |-> pikepdf, pike_pages |-> pike_pages, fitz |-> fitz, fitz_pages |-> fitz_pages]
TrialOutcomes ==
    {Trial("PasswordError", <<>>, "", <<>>)}
    \cup {Trial("opened", pages, "", <<>>) : pages \in PageLists}
    \cup {Trial("Exception", <<>>, f, <<>>) : f \in {"Exception", "no_password_needed", "not_authenticated"}}
    \cup {Trial("Exception", <<>>, "authenticated", pages) : pages \in PageLists}

\* lines 280-313: the text one loop iteration returns, None if the loop goes
\* on to the next candidate
TrialText(o) ==
    IF o.pikepdf = "opened"
    THEN IF ~IsBlank(TextOfPages(o.pike_pages)) THEN TextOfPages(o.pike_pages) ELSE None
    ELSE IF o.pikepdf = "PasswordError" THEN None
    ELSE IF o.fitz = "authenticated" /\ ~IsBlank(TextOfPages(o.fitz_pages))
         THEN TextOfPages(o.fitz_pages)
         ELSE None

\* how a trial that returned no text ended
TrialEnding(o) ==
    IF o.pikepdf = "PasswordError" THEN "wrong_password"
    ELSE IF o.pikepdf = "opened" THEN "empty_text"
    ELSE IF o.fitz = "authenticated" THEN "empty_text"
    ELSE IF o.fitz = "not_authenticated" THEN "wrong_password"
    ELSE "library_error"

\* a variant that walks the list from its end
RankAt_Reversed(candidates, idx) == Len(candidates) - idx

\* line 276, enumerate(password_candidates): the list position (rank, from 1)
\* that loop iteration idx (from 0) visits
RankAt(candidates, idx) == idx + 1

\* a variant that runs the recognition whatever stage 1 returned
AfterDirectText_AlwaysRecognize(text) == "stage2"

\* lines 363-367: after stage 1 returned text
AfterDirectText(text) == IF IsBlank(text) THEN "stage2" ELSE "returned"

\* lines 365-367: after the stage-2 recognition returned text
AfterOcrText(text) == "returned"

\* a variant that retries the direct extraction
AfterCaught_Retry == "stage1"

\* lines 369-374: an exception of stage 1 or stage 2 is caught
AfterCaught == "recover"

\* a variant in which a failing candidate ends the loop with its exception
AfterFailedTrial_Abort == "raised"

\* lines 276-316: after a loop iteration that returned nothing
AfterFailedTrial == "loop"

\* lines 381-382: after the last-resort recognition returned text
AfterLastResortText(text) == "returned"

\* lines 383-387: the last-resort recognition raised
AfterLastResortFault == "raised"

PipeProfiles ==
    { JohnDoe,
      Customer(<<"A", "l">>, <<"1", "2", "3">>, <<" ", " ">>, <<>>),
      Customer(<<>>, <<>>, <<>>, <<>>),
      Customer(<<"A", "l">>, None, <<"1", "5", "/", "0", "3", "/", "1", "9", "8", "0">>, <<>>) }

Init ==
    /\ customer \in PipeProfiles
    /\ gen_called = FALSE
    /\ gen_out = GenIdle
    /\ content_type \in {"application/pdf", "text/plain"}
    /\ pc = "start"
    /\ e = ""
    /\ password_candidates = <<>>
    /\ i = 0
    /\ result = None
    /\ exc = ""
    /\ password_used = None
    /\ via = ""
    /\ stage1_text = None
    /\ n_direct = 0
    /\ n_ocr = 0
    /\ n_recover = 0
    /\ tried = <<>>
    /\ first_good = 0
    /\ good_text = None
    /\ last_outcome = ""
    /\ ServiceIdle

\* lines 354-357
CheckContentType ==
    /\ pc = "start"
    /\ IF content_type # "application/pdf"
       THEN pc' = "raised" /\ exc' = "HTTPException"
       ELSE pc' = "stage1" /\ exc' = exc
    /\ UNCHANGED <<vars_gen, vars_service, content_type, e, password_candidates, i, result, password_used,
                   via, stage1_text, n_direct, n_ocr, n_recover, tried, first_good,
                   good_text, last_outcome>>

\* lines 361-367 (and 369-371 when stage 1 raises)
ExtractDirect ==
    /\ pc = "stage1"
    /\ n_direct' = n_direct + 1
    /\ \E o \in ExtractionOutcomes :
          IF o.raises
          THEN /\ pc' = AfterCaught
               /\ e' = "direct"
               /\ UNCHANGED <<stage1_text, result, via>>
          ELSE LET text_content == TextOfPages(o.pages) IN
               /\ stage1_text' = text_content
               /\ pc' = AfterDirectText(text_content)
               /\ IF pc' = "returned"
                  THEN result' = text_content /\ via' = "direct"
                  ELSE UNCHANGED <<result, via>>
               /\ e' = e
    /\ UNCHANGED <<vars_gen, vars_service, content_type, password_candidates, i, exc, password_used,
                   n_ocr, n_recover, tried, first_good, good_text, last_outcome>>

\* lines 365-367 (and 369-371 when the recognition raises)
RecognizeStage2 ==
    /\ pc = "stage2"
    /\ n_ocr' = n_ocr + 1
    /\ \E o \in ExtractionOutcomes :
          IF o.raises
          THEN /\ pc' = AfterCaught
               /\ e' = "ocr"
               /\ UNCHANGED <<result, via>>
          ELSE LET text_content == TextOfPages(o.pages) IN
               /\ pc' = AfterOcrText(text_content)
               /\ IF pc' = "returned"
                  THEN result' = text_content /\ via' = "ocr"
                  ELSE UNCHANGED <<result, via>>
               /\ e' = e
    /\ UNCHANGED <<vars_gen, vars_service, content_type, password_candidates, i, exc, password_used,
                   stage1_text, n_direct, n_recover, tried, first_good, good_text,
                   last_outcome>>

\* line 374 entering try_password_protected_pdf, line 272
BeginRecovery ==
    /\ pc = "recover"
    /\ n_recover' = n_recover + 1
    /\ gen_called' = TRUE
    /\ gen_out' = generate_password_candidates(customer)
    /\ IF gen_out'.raised # ""
       THEN /\ pc' = "raised"
            /\ exc' = gen_out'.raised
            /\ UNCHANGED password_candidates
       ELSE /\ pc' = "loop"
            /\ password_candidates' = gen_out'.candidates
            /\ exc' = exc
    /\ i' = 0
    /\ UNCHANGED <<vars_service, customer, content_type, e, result, password_used, via, stage1_text,
                   n_direct, n_ocr, tried, first_good, good_text, last_outcome>>

\* one iteration of the loop of lines 276-313, with the return of lines 376-377
\* when it produced text
TryCandidate ==
    /\ pc = "loop"
    /\ i < Len(password_candidates)
    /\ LET rank == RankAt(password_candidates, i)
           password == password_candidates[rank]
       IN /\ tried' = Append(tried, rank)
          /\ \E o \in TrialOutcomes :
                LET text_content == TrialText(o) IN
                IF text_content # None
                THEN /\ first_good' = IF first_good = 0 THEN rank ELSE first_good
                     /\ good_text' = IF first_good = 0 THEN text_content ELSE good_text
                     /\ last_outcome' = "text"
                     /\ pc' = "returned"
                     /\ result' = text_content
                     /\ password_used' = password
                     /\ via' = "password"
                     /\ i' = i
                ELSE /\ last_outcome' = TrialEnding(o)
                     /\ pc' = AfterFailedTrial
                     /\ i' = i + 1
                     /\ UNCHANGED <<first_good, good_text, result, password_used, via>>
    /\ UNCHANGED <<vars_gen, vars_service, content_type, e, password_candidates, exc, stage1_text,
                   n_direct, n_ocr, n_recover>>

\* lines 315-316 and 376-387: the loop is exhausted, None comes back, and the
\* recognition is run as the last resort
RecognizeLastResort ==
    /\ pc = "loop"
    /\ i >= Len(password_candidates)
    /\ n_ocr' = n_ocr + 1
    /\ \E o \in ExtractionOutcomes :
          IF o.raises
          THEN /\ pc' = AfterLastResortFault
               /\ exc' = IF pc' = "raised" THEN "HTTPException" ELSE exc
               /\ UNCHANGED <<result, via>>
          ELSE LET text_content == TextOfPages(o.pages) IN
               /\ pc' = AfterLastResortText(text_content)
               /\ IF pc' = "returned"
                  THEN result' = text_content /\ via' = "ocr_last"
                  ELSE UNCHANGED <<result, via>>
               /\ exc' = exc
    /\ UNCHANGED <<vars_gen, vars_service, content_type, e, password_candidates, i, password_used,
                   stage1_text, n_direct, n_recover, tried, first_good, good_text,
                   last_outcome>>

Next ==
    \/ CheckContentType
    \/ ExtractDirect
    \/ RecognizeStage2
    \/ BeginRecovery
    \/ TryCandidate
    \/ RecognizeLastResort

Spec == Init /\ [][Next]_vars

----------------------------------------------------------------------------
(* ReminderService.update_credit_card_info on one row                      *)

\* bound on the number of statements applied to the row
MaxUpdates == 2

SampleTexts ==
    { <<"A", "E", "D", " ", "2", "5", "0", ".", "0", "0", " ", "p", "a", "y", "m", "e", "n", "t", " ", "d", "u", "e", ":", " ", "0", "5", "/", "0", "6", "/", "2", "0", "2", "4", "\n", "M", "i", "n", "i", "m", "u", "m", " ", "P", "a", "y", "m", "e", "n", "t", ":", " ", "A", "E", "D", " ", "2", "5", "0", ".", "0", "0", "\n", "C", "u", "r", "r", "e", "n", "t", " ", "B", "a", "l", "a", "n", "c", "e", ":", " ", "A", "E", "D", " ", "1", ",", "5", "0", "0", ".", "0", "0">>,
      <<"n", "o", " ", "f", "a", "c", "t", "s", " ", "h", "e", "r", "e">>,
      <<"D", "H", "S", " ", "1", "0", "0", " ", "p", "a", "y", "m", "e", "n", "t", " ", "d", "u", "e", ":", " ", "9", "9", "/", "9", "9", "/", "2", "0", "2", "4", ",", " ", "1", "0", "0", " ", "D", "H", "S", " ", "d", "u", "e", " ", "d", "a", "t", "e", ":", " ", "0", "7", "/", "0", "8", "/", "2", "0", "2", "4">>,
      <<"A", "E", "D", " ", "1", "0", "0", " ", "p", "a", "y", "m", "e", "n", "t", " ", "d", "u", "e", ":", " ", "9", "9", "/", "9", "9", "/", "2", "0", "2", "4">>,
      <<"m", "i", "n", "i", "m", "u", "m", " ", "p", "a", "y", "m", "e", "n", "t", ":", " ", "D", "H", "S", " ", "0", ".", "0", "0">>,
      <<"b", "a", "l", "a", "n", "c", "e", ":", " ", "7", "5", ".", "5", "0", " ", "d", "h", "s">>,
      <<"A", "E", "D", " ", "9", " ", "d", "u", "e", " ", "M", "a", "r", "c", "h", " ", "5", ",", " ", "2", "0", "2", "4">>,
      <<>>,
      <<"A", "m", "o", "u", "n", "t", " ", "d", "u", "e", ":", " ", "1", ",", "2", "3", "4", ".", "5", "0", " ", "A", "E", "D", " ", "n", "e", "w", " ", "b", "a", "l", "a", "n", "c", "e", ":", " ", "A", "E", "D", " ", "2", "0", ".", "0", "0">>,
      <<"x", "A", "E", "D", " ", "y", "D", "H", "S", "_", " ", "3", "1", "/", "1", "2", "/", "2", "0", "2", "4", " ", "d", "u", "e", " ", "f", "o", "r", " ", "D", "H", "S", " ", "5">> }

\* a row holding the facts of an earlier statement
KnownCard ==
    [due_date |-> <<"2", "0", "2", "4", "-", "0", "1", "-", "1", "5">>,
     minimum_payment |-> 10000, current_balance |-> 50000,
     currency_code |-> S_DHS, has_currency_code |-> TRUE]

\* a row of a model without the currency_code attribute
CardWithoutCurrency ==
    [due_date |-> None, minimum_payment |-> 10000, current_balance |-> NoAmount,
     currency_code |-> None, has_currency_code |-> FALSE]

InitCard ==
    /\ credit_card \in {FreshCard, KnownCard, CardWithoutCurrency}
    /\ n_updates = 0
    /\ extracted_text = <<>>
    /\ extracted = NoExtraction
    /\ customer = JohnDoe
    /\ gen_called = FALSE
    /\ gen_out = GenIdle
    /\ PipeIdle
    /\ PayIdle
    /\ RemIdle

\* what lines 86-89 extract from each sample text
SampleExtraction == [text \in SampleTexts |-> Extraction(text)]

\* ReminderService.update_credit_card_info, lines 85-104: one call, the
\* commit included
update_credit_card_info ==
    /\ n_updates < MaxUpdates
    /\ \E text \in SampleTexts :
          /\ extracted_text' = text
          /\ extracted' = SampleExtraction[text]
          /\ credit_card' = StoreExtraction(credit_card, SampleExtraction[text])
    /\ n_updates' = n_updates + 1
    /\ UNCHANGED <<vars_gen, vars_pipe, vars_pay, vars_rem>>

NextCard == update_credit_card_info

SpecCard == InitCard /\ [][NextCard]_vars

----------------------------------------------------------------------------
(* ReminderService: the payoff simulation, lines 328-356                  *)

\* x * monthly_rate, rounded to the nearest ten-thousandth
TimesRate(x, monthly_rate) ==
    (x * monthly_rate.num + monthly_rate.den \div 2) \div monthly_rate.den

\* lines 329 and 344: payment <= balance * monthly_rate
NeverPaysOff(balance, payment, monthly_rate) ==
    payment <= TimesRate(balance, monthly_rate)

\* line 335: months < 600
PayoffCap == 600
\* line 330: return 999
NeverMonths == 999
\* line 345: float('inf')
Infinity == -1
\* the largest finite amount of the number format (sys.float_info.max of a
\* Python float)
FloatMax == 1000000000
\* a + b of line 353: a sum beyond the largest finite amount is inf
FloatAdd(a, b) ==
    IF a = Infinity \/ b = Infinity \/ a + b > FloatMax THEN Infinity ELSE a + b

SampleSimulations ==
    { Simulation(10000000, 500000, Rate(1, 120)),     \* 1000 at 50 a month, 10% a year
      Simulation(100000000, 1000100, Rate(1, 100)),   \* 10000 at 100.01 a month, 1% a month
      Simulation(10000000, 100000, Rate(1, 100)),     \* payment = first month's interest
      Simulation(10000000, 50000, Rate(1, 100)),      \* payment < first month's interest
      Simulation(0, 0, Rate(1, 100)),
      Simulation(10000000, 10000000, Rate(1, 100)),
      Simulation(10000000, 20000000, Rate(0, 1)),
      Simulation(3000000, 1000000, Rate(1, 100)),
      Simulation(-50000, 10000, Rate(1, 100)),
      Simulation(600000000, 960000000, Rate(3, 2)) }  \* amounts near FloatMax

InitPayoff ==
    /\ sim \in SampleSimulations
    /\ pay_pc = "idle"
    /\ months = 0
    /\ remaining = 0
    /\ total_interest = 0
    /\ n_accruals = 0
    /\ months_result = 0
    /\ interest_result = 0
    /\ customer = JohnDoe
    /\ gen_called = FALSE
    /\ gen_out = GenIdle
    /\ PipeIdle
    /\ CardIdle
    /\ RemIdle

\* _calculate_payoff_time, lines 329-333: the guard and the locals
CallPayoffTime ==
    /\ pay_pc = "idle"
    /\ IF NeverPaysOff(sim.balance, sim.payment, sim.monthly_rate)
       THEN /\ months_result' = NeverMonths
            /\ pay_pc' = "interest_call"
            /\ UNCHANGED <<months, remaining>>
       ELSE /\ months' = 0
            /\ remaining' = sim.balance
            /\ pay_pc' = "payoff_loop"
            /\ UNCHANGED months_result
    /\ UNCHANGED <<vars_gen, vars_pipe, vars_card, vars_rem, sim, total_interest, n_accruals,
                   interest_result>>

\* _calculate_payoff_time, lines 335-341: one test of the loop condition,
\* then one iteration or the return
PayoffTimeLoop ==
    /\ pay_pc = "payoff_loop"
    /\ IF remaining > 0 /\ months < PayoffCap
       THEN /\ remaining' = remaining - (sim.payment - TimesRate(remaining, sim.monthly_rate))
            /\ months' = months + 1
            /\ UNCHANGED <<pay_pc, months_result>>
       ELSE /\ months_result' = months
            /\ pay_pc' = "interest_call"
            /\ UNCHANGED <<months, remaining>>
    /\ UNCHANGED <<vars_gen, vars_pipe, vars_card, vars_rem, sim, total_interest, n_accruals,
                   interest_result>>

\* _calculate_total_interest, lines 344-348: the guard and the locals
CallTotalInterest ==
    /\ pay_pc = "interest_call"
    /\ IF NeverPaysOff(sim.balance, sim.payment, sim.monthly_rate)
       THEN /\ interest_result' = Infinity
            /\ pay_pc' = "done"
            /\ UNCHANGED <<total_interest, remaining>>
       ELSE /\ total_interest' = 0
            /\ remaining' = sim.balance
            /\ pay_pc' = "interest_loop"
            /\ UNCHANGED interest_result
    /\ UNCHANGED <<vars_gen, vars_pipe, vars_card, vars_rem, sim, months, n_accruals, months_result>>

\* _calculate_total_interest, lines 350-356: one test of the loop condition,
\* then one iteration or the return
TotalInterestLoop ==
    /\ pay_pc = "interest_loop"
    /\ IF remaining > 0
       THEN /\ total_interest' = FloatAdd(total_interest,
                                          TimesRate(remaining, sim.monthly_rate))
            /\ remaining' = remaining - (sim.payment - TimesRate(remaining, sim.monthly_rate))
            /\ n_accruals' = n_accruals + 1
            /\ UNCHANGED <<pay_pc, interest_result>>
       ELSE /\ interest_result' = total_interest
            /\ pay_pc' = "done"
            /\ UNCHANGED <<total_interest, remaining, n_accruals>>
    /\ UNCHANGED <<vars_gen, vars_pipe, vars_card, vars_rem, sim, months, months_result>>

NextPayoff ==
    \/ CallPayoffTime
    \/ PayoffTimeLoop
    \/ CallTotalInterest
    \/ TotalInterestLoop

SpecPayoff == InitPayoff /\ [][NextPayoff]_vars

----------------------------------------------------------------------------
(* ReminderService: upcoming and overdue due dates, lines 134-231          *)

\* a CreditCard row, as far as ReminderService reads it
CardRow(id, customer_id, due_date, minimum_payment, currency_code) ==
    [id |-> id, customer_id |-> customer_id, due_date |-> due_date,
     minimum_payment |-> minimum_payment, currency_code |-> currency_code]

\* the date of a '%Y-%m-%d' match over a string of length len, NoDate where
\* strptime raises ValueError (no match, unconverted data, no such day)
DateOfGroups(found, len) ==
    IF ~found.ok \/ found.end # len + 1 THEN NoDate
    ELSE IF ValidDate(StrpGroup(found.groups, "Y"), StrpGroup(found.groups, "m"),
                      StrpGroup(found.groups, "d"))
         THEN Date(StrpGroup(found.groups, "Y"), StrpGroup(found.groups, "m"),
                   StrpGroup(found.groups, "d"))
         ELSE NoDate

\* datetime.strptime(s, '%Y-%m-%d').date()
strptime_date(s) == DateOfGroups(StrpMatch(<<"Y", "-", "m", "-", "d">>, s, 1), Len(s))

RECURSIVE DaysBeforeMonth(_, _)
DaysBeforeMonth(y, m) ==
    IF m <= 1 THEN 0 ELSE DaysBeforeMonth(y, m - 1) + DaysInMonth(y, m - 1)

\* date.toordinal(): (a - b).days is toordinal(a) - toordinal(b)
toordinal(date) ==
    365 * (date.y - 1) + (date.y - 1) \div 4 - (date.y - 1) \div 100
        + (date.y - 1) \div 400 + DaysBeforeMonth(date.y, date.m) + date.d

\* a variant whose first tier ends a day early
_calculate_urgency_DayEarly(days_until_due) ==
    IF days_until_due < 1 THEN "critical"
    ELSE IF days_until_due <= 3 THEN "high"
    ELSE IF days_until_due <= 7 THEN "medium"
    ELSE "low"

\* lines 169-177
_calculate_urgency(days_until_due) ==
    IF days_until_due <= 1 THEN "critical"
    ELSE IF days_until_due <= 3 THEN "high"
    ELSE IF days_until_due <= 7 THEN "medium"
    ELSE "low"

\* lines 219-229, amounts in hundredths: the DHS branch and the AED branch
\* set the same fees
base_late_fee(minimum_payment) ==
    IF minimum_payment < 37000 THEN 11000
    ELSE IF minimum_payment > 185000 THEN 18000
    ELSE 14500

\* lines 213-231
_estimate_late_fees(days_overdue, minimum_payment, currency_code) ==
    IF days_overdue <= 0 THEN 0
    ELSE IF currency_code = S_DHS THEN base_late_fee(minimum_payment)
    ELSE base_late_fee(minimum_payment)

\* card.minimum_payment or 0
OrZero(amount) == IF Truthy(amount) THEN amount ELSE 0

\* lines 145 and 190, 'if card.due_date:'
HasDueDate(card) == card.due_date # None /\ card.due_date # <<>>

\* lines 138-140 and 182-184: the rows of the customer, in table order
CardsOf(customer_id) == SelectSeq(cards, LAMBDA card : card.customer_id = customer_id)

\* lines 147-163 for one card whose due date parsed as due_date; t is
\* today's ordinal
UpcomingOf(card, due_date, t, days_ahead) ==
    IF due_date # NoDate /\ t <= toordinal(due_date) /\ toordinal(due_date) <= t + days_ahead
    THEN << [credit_card_id |-> card.id,
             due_date |-> strftime_ymd(due_date),
             minimum_payment |-> OrZero(card.minimum_payment),
             currency_code |-> card.currency_code,
             days_until_due |-> toordinal(due_date) - t,
             urgency |-> _calculate_urgency(toordinal(due_date) - t)] >>
    ELSE <<>>

\* lines 192-208 for one card whose due date parsed as due_date
OverdueOf(card, due_date, t) ==
    IF due_date # NoDate /\ toordinal(due_date) < t
    THEN << [credit_card_id |-> card.id,
             due_date |-> strftime_ymd(due_date),
             minimum_payment |-> OrZero(card.minimum_payment),
             currency_code |-> card.currency_code,
             days_overdue |-> t - toordinal(due_date),
             late_fees_estimated |->
                 _estimate_late_fees(t - toordinal(due_date), OrZero(card.minimum_payment),
                                     card.currency_code)] >>
    ELSE <<>>

\* the due date of a row as the loops of lines 144-147 and 189-192 see it:
\* NoDate for a row that is skipped
DueDateOf(card) == IF HasDueDate(card) THEN strptime_date(card.due_date) ELSE NoDate

\* sorted(seq, key=...): keys[k] is the key of seq[k]; equal keys keep their order
StableSort(seq, keys) ==
    [p \in 1..Len(seq) |->
        seq[CHOOSE k \in 1..Len(seq) :
               Cardinality({j \in 1..Len(seq) :
                               keys[j] < keys[k] \/ (keys[j] = keys[k] /\ j < k)}) = p - 1]]

\* lines 142-167
DueDatesOf(rows, t, days_ahead) ==
    Flatten([k \in 1..Len(rows) |-> UpcomingOf(rows[k], DueDateOf(rows[k]), t, days_ahead)])
SortedByDaysUntilDue(due_dates) ==
    StableSort(due_dates, [k \in 1..Len(due_dates) |-> due_dates[k].days_until_due])

\* lines 187-211
OverduePaymentsOf(rows, t) ==
    Flatten([k \in 1..Len(rows) |-> OverdueOf(rows[k], DueDateOf(rows[k]), t)])
SortedByDaysOverdueReversed(overdue_payments) ==
    StableSort(overdue_payments,
               [k \in 1..Len(overdue_payments) |-> 0 - overdue_payments[k].days_overdue])

\* the days_ahead arguments: the default of line 134 and a wider window
DaysAheadSamples == {7, 10}

\* due_date columns: written by line 92, by hand without zero padding, absent,
\* empty, and a day that does not exist
SampleDueDates ==
    { strftime_ymd(Date(2023, 12, 31)), strftime_ymd(Date(2024, 2, 28)),
      strftime_ymd(Date(2024, 2, 29)), strftime_ymd(Date(2024, 3, 1)),
      strftime_ymd(Date(2024, 3, 2)), <<"2", "0", "2", "4", "-", "3", "-", "3">>,
      strftime_ymd(Date(2024, 3, 4)), strftime_ymd(Date(2024, 3, 5)),
      strftime_ymd(Date(2024, 3, 8)), strftime_ymd(Date(2024, 3, 9)),
      strftime_ymd(Date(2024, 3, 11)), strftime_ymd(Date(2024, 3, 12)),
      None, <<>>, <<"2", "0", "2", "4", "-", "0", "2", "-", "3", "0">> }

\* two cards of customer 1 and a card of customer 2, on 1 March 2024
InitDue ==
    /\ \E d1 \in SampleDueDates, d2 \in SampleDueDates :
          cards = << CardRow(1, 1, d1, NoAmount, S_AED),
                     CardRow(2, 1, d2, 200000, S_DHS),
                     CardRow(3, 2, strftime_ymd(Date(2024, 3, 2)), 10000, S_AED) >>
    /\ today = Date(2024, 3, 1)
    /\ upcoming = NotCalled
    /\ overdue = NotCalled
    /\ reminders = <<>>
    /\ call = NoCall
    /\ returned = Returned("", NoReminder)
    /\ n_calls = 0
    /\ customer = JohnDoe
    /\ gen_called = FALSE
    /\ gen_out = GenIdle
    /\ PipeIdle
    /\ CardIdle
    /\ PayIdle

\* ReminderService.get_upcoming_due_dates(1, db, days_ahead), lines 134-167
get_upcoming_due_dates ==
    /\ \E days_ahead \in DaysAheadSamples :
          upcoming' = [called |-> TRUE, days_ahead |-> days_ahead,
                       list |-> SortedByDaysUntilDue(
                                    DueDatesOf(CardsOf(1), toordinal(today), days_ahead))]
    /\ UNCHANGED <<vars_gen, vars_pipe, vars_card, vars_pay, cards, today, overdue,
                   reminders, call, returned, n_calls>>

\* ReminderService.get_overdue_payments(1, db), lines 179-211
get_overdue_payments ==
    /\ overdue' = [called |-> TRUE, days_ahead |-> 0,
                   list |-> SortedByDaysOverdueReversed(
                                OverduePaymentsOf(CardsOf(1), toordinal(today)))]
    /\ UNCHANGED <<vars_gen, vars_pipe, vars_card, vars_pay, cards, today, upcoming,
                   reminders, call, returned, n_calls>>

NextDue == get_upcoming_due_dates \/ get_overdue_payments

SpecDue == InitDue /\ [][NextDue]_vars

----------------------------------------------------------------------------
(* ReminderService: the reminder table, lines 106-132 and 249-253          *)

\* bound on the calls made on the tables
MaxCalls == 4

\* the reminder_sent of a row inserted without one: the column default
ReminderSentDefault == FALSE

\* the primary key the insert assigns: rows are never deleted
NextReminderId(rows) == Len(rows) + 1

\* a variant that looks for a reminder already sent
ExistingReminders_Sent(rows, credit_card_id, due_date) ==
    {k \in 1..Len(rows) : /\ rows[k].credit_card_id = credit_card_id
                          /\ rows[k].due_date = due_date
                          /\ rows[k].reminder_sent = TRUE}

\* lines 111-115: the rows the query matches
ExistingReminders(rows, credit_card_id, due_date) ==
    {k \in 1..Len(rows) : /\ rows[k].credit_card_id = credit_card_id
                          /\ rows[k].due_date = due_date
                          /\ rows[k].reminder_sent = FALSE}

\* lines 120-125 and the insert of lines 127-129
NewReminder(rows, card, due_date) ==
    Reminder(NextReminderId(rows), card.customer_id, card.id, due_date,
             OrZero(card.minimum_payment), ReminderSentDefault)

\* lines 109-131 for a card with a due date that strptime parsed as due_date
\* (NoDate: it raised ValueError); existing is what the query matched, and
\* first() returns one of the matching rows
CreateFor(card, due_date, existing) ==
    IF due_date = NoDate
    THEN /\ returned' = Returned("ValueError", NoReminder)
         /\ UNCHANGED reminders
    ELSE IF existing # {}
    THEN /\ \E k \in existing : returned' = Returned("", reminders[k])
         /\ UNCHANGED reminders
    ELSE /\ reminders' = Append(reminders, NewReminder(reminders, card, due_date))
         /\ returned' = Returned("", NewReminder(reminders, card, due_date))

\* ReminderService.create_payment_reminder, lines 106-132
create_payment_reminder ==
    /\ n_calls < MaxCalls
    /\ \E c \in 1..Len(cards) :
          /\ call' = [op |-> "create", arg |-> cards[c].id]
          /\ IF ~HasDueDate(cards[c])
             THEN /\ returned' = Returned("", NoReminder)
                  /\ UNCHANGED reminders
             ELSE CreateFor(cards[c], strptime_date(cards[c].due_date),
                            ExistingReminders(reminders, cards[c].id,
                                              strptime_date(cards[c].due_date)))
    /\ n_calls' = n_calls + 1
    /\ UNCHANGED <<vars_gen, vars_pipe, vars_card, vars_pay, cards, today, upcoming, overdue>>

\* lines 250-253: the row with the id gets reminder_sent = True
MarkSent(rows, reminder_id) ==
    [k \in 1..Len(rows) |->
        IF rows[k].id = reminder_id THEN [rows[k] EXCEPT !.reminder_sent = TRUE] ELSE rows[k]]

\* ReminderService.mark_reminder_sent, lines 249-253
mark_reminder_sent ==
    /\ n_calls < MaxCalls
    /\ \E reminder_id \in 1..(Len(reminders) + 1) :
          /\ call' = [op |-> "mark", arg |-> reminder_id]
          /\ reminders' = MarkSent(reminders, reminder_id)
    /\ returned' = Returned("", NoReminder)
    /\ n_calls' = n_calls + 1
    /\ UNCHANGED <<vars_gen, vars_pipe, vars_card, vars_pay, cards, today, upcoming, overdue>>

\* the due dates later statements carry
NextDueDates == {Date(2024, 3, 5), Date(2024, 4, 5)}

\* update_credit_card_info, lines 91-92 and 103, on a row of the table: a
\* new statement changes the due date of a card
StoreDueDate ==
    /\ n_calls < MaxCalls
    /\ \E c \in 1..Len(cards), due_date \in NextDueDates :
          /\ cards' = [cards EXCEPT ![c].due_date = strftime_ymd(due_date)]
          /\ call' = [op |-> "update", arg |-> cards[c].id]
    /\ returned' = Returned("", NoReminder)
    /\ n_calls' = n_calls + 1
    /\ UNCHANGED <<vars_gen, vars_pipe, vars_card, vars_pay, today, upcoming, overdue,
                   reminders>>

\* the due_date columns the rows start with: absent, written by line 92,
\* the same day without zero padding, and a day that does not exist
StartDueDates ==
    { None, strftime_ymd(Date(2024, 3, 5)), <<"2", "0", "2", "4", "-", "3", "-", "5">>,
      <<"2", "0", "2", "4", "-", "0", "2", "-", "3", "0">> }

\* two cards of customer 1 and an empty reminder table
InitReminders ==
    /\ \E d1 \in StartDueDates, d2 \in StartDueDates :
          cards = << CardRow(1, 1, d1, NoAmount, S_AED), CardRow(2, 1, d2, 200000, S_DHS) >>
    /\ today = Date(2024, 3, 1)
    /\ upcoming = NotCalled
    /\ overdue = NotCalled
    /\ reminders = <<>>
    /\ call = NoCall
    /\ returned = Returned("", NoReminder)
    /\ n_calls = 0
    /\ customer = JohnDoe
    /\ gen_called = FALSE
    /\ gen_out = GenIdle
    /\ PipeIdle
    /\ CardIdle
    /\ PayIdle

NextReminders == create_payment_reminder \/ mark_reminder_sent \/ StoreDueDate

SpecReminders == InitReminders /\ [][NextReminders]_vars

----------------------------------------------------------------------------
(* Properties of parse_pdf (checked under Spec)                            *)

\* C1: once stage 1 has extracted text that is non-empty after stripping,
\* parse_pdf has returned exactly that text, and neither the optical
\* recognition nor the credential recovery (try_password_protected_pdf,
\* generate_password_candidates, any candidate trial) has been invoked.
C1_StageShortCircuit ==
    (stage1_text # None /\ ~IsBlank(stage1_text)) =>
        /\ pc = "returned"
        /\ result = stage1_text
        /\ n_ocr = 0
        /\ n_recover = 0
        /\ ~gen_called
        /\ tried = <<>>

\* C1 witness: stage 1 gave non-blank text and parse_pdf returned
C1_Witness ==
    /\ pc = "returned"
    /\ n_direct = 1
    /\ stage1_text # None /\ ~IsBlank(stage1_text)

\* C2: the candidates are tried one by one in rank order from rank 1, and
\* when k is the lowest rank whose trial decrypts to non-blank text,
\* parse_pdf returns that text, names candidate k as the password used, and
\* has tried exactly the ranks 1..k.
C2_RankOrderDecides ==
    /\ tried = [j \in 1..Len(tried) |-> j]
    /\ first_good > 0 =>
          /\ pc = "returned"
          /\ result = good_text
          /\ ~IsBlank(result)
          /\ password_used = password_candidates[first_good]
          /\ Len(tried) = first_good

\* C2 witness: stage 1 failed hard, the candidates of rank 1 and 2 failed and
\* the candidate of rank 3 decrypted the document
C2_Witness ==
    /\ e = "direct"
    /\ pc = "returned"
    /\ via = "password"
    /\ first_good = 3

\* C3 (as claimed): for a PDF upload, whatever the stages do, parse_pdf
\* never ends by raising; every failure is a returned value.
C3_NoExceptionEscapes ==
    content_type = "application/pdf" => pc # "raised"

\* C4 (as claimed): on every path direct extraction is invoked at most once
\* and the optical recognition at most once.
C4_EachStageAtMostOnce ==
    n_direct <= 1 /\ n_ocr <= 1

\* C4 (amended): direct extraction and credential recovery are invoked at
\* most once, each candidate is tried at most once, and the optical
\* recognition is invoked at most twice, the second time only as the last
\* resort after stage 1 gave blank text, the stage-2 recognition raised and
\* every candidate failed.
C4_StagesBounded ==
    /\ n_direct <= 1
    /\ n_recover <= 1
    /\ n_ocr <= 2
    /\ Len(tried) <= Len(password_candidates)
    /\ \A a, b \in DOMAIN tried : a # b => tried[a] # tried[b]
    /\ n_ocr = 2 =>
          /\ e = "ocr"
          /\ stage1_text # None /\ IsBlank(stage1_text)
          /\ first_good = 0
          /\ Len(tried) = Len(password_candidates)
          /\ pc \in {"returned", "raised"}

\* C4 witness: the recognition has run twice around a loop that tried
\* several candidates
C4_Witness ==
    /\ n_ocr = 2
    /\ n_direct = 1
    /\ Len(tried) > 1

\* C5 (as claimed): a text returned by parse_pdf is non-empty after
\* stripping.
C5_ReturnedTextNonBlank ==
    pc = "returned" => ~IsBlank(result)

----------------------------------------------------------------------------
(* Properties of update_credit_card_info (checked under SpecCard)          *)

\* C6 (as claimed): in every call of update_credit_card_info, each of the
\* four facts that the row holds and that the extraction did not find in the
\* text keeps the value the row had before the call.
C6_FactsNeverRegress ==
    [][n_updates' = n_updates + 1 =>
          /\ (credit_card.due_date # None /\ extracted'.due_date = NoDate) =>
                credit_card'.due_date = credit_card.due_date
          /\ (credit_card.minimum_payment # NoAmount /\ extracted'.minimum_payment = NoAmount) =>
                credit_card'.minimum_payment = credit_card.minimum_payment
          /\ (credit_card.current_balance # NoAmount /\ extracted'.current_balance = NoAmount) =>
                credit_card'.current_balance = credit_card.current_balance
          /\ (/\ credit_card.currency_code # None
              /\ ~search(dhs_pattern, extracted_text').found
              /\ ~search(aed_pattern, extracted_text').found) =>
                credit_card'.currency_code = credit_card.currency_code]_vars

\* what due-date pattern k makes of the text: the parsed date of its
\* leftmost match, NoDate if it does not match or the match does not parse
DueDateOfPattern(text, k) ==
    LET match == search(due_date_patterns[k], text)
    IN IF match.found THEN dateparser_parse(match.group1) ELSE NoDate

MatchingDuePatterns(text) ==
    {k \in 1..Len(due_date_patterns) : search(due_date_patterns[k], text).found}

\* the first due-date pattern that matches the text captures a substring the
\* date parser cannot parse
FirstMatchUnparsable(text) ==
    /\ MatchingDuePatterns(text) # {}
    /\ DueDateOfPattern(text, Lowest(MatchingDuePatterns(text))) = NoDate

----------------------------------------------------------------------------
(* Properties of the candidate generator (checked under SpecGen)           *)

\* C7: whenever generate_password_candidates returns, its list holds no
\* string twice and no empty or whitespace-only string, it holds every
\* non-blank string the rules generated, and the strings stand in the order
\* of their first generated occurrence; the list is a function of the
\* profile alone.
C7_DistinctNonBlankFirstOccurrence ==
    (gen_called /\ gen_out.raised = "") =>
        LET out == gen_out.candidates
            raw == RawCandidates(customer)
        IN /\ \A a, b \in DOMAIN out : a # b => out[a] # out[b]
           /\ \A a \in DOMAIN out : out[a] # <<>> /\ Strip(out[a]) # <<>>
           /\ Range(out) = {c \in Range(raw) : c # <<>> /\ Strip(c) # <<>>}
           /\ \A a, b \in DOMAIN out :
                  a < b => FirstIndex(raw, out[a]) < FirstIndex(raw, out[b])
           /\ gen_out = generate_password_candidates(customer)

\* C7 witness: a returned list for which the rules generated a repeated
\* string, an empty string and a whitespace-only string
C7_Witness ==
    /\ gen_called /\ gen_out.raised = ""
    /\ LET raw == RawCandidates(customer)
       IN /\ \E a, b \in DOMAIN raw : a < b /\ raw[a] = raw[b] /\ raw[a] \in Range(gen_out.candidates)
          /\ \E a \in DOMAIN raw : raw[a] = <<>>
          /\ \E a \in DOMAIN raw : raw[a] # <<>> /\ Strip(raw[a]) = <<>>

\* C8 (as claimed): whenever a birth year is derivable from the profile and
\* the phone number has at least 4 digits, generate_password_candidates
\* returns a list whose index 0 holds birth year + last 4 phone digits.
C8_PrimaryAtIndexZero ==
    (/\ gen_called
     /\ extract_birth_year(customer.date_of_birth) # None
     /\ Len(phone_of(customer)) >= 4) =>
        /\ gen_out.raised = ""
        /\ gen_out.candidates # <<>>
        /\ gen_out.candidates[1] =
               extract_birth_year(customer.date_of_birth) \o LastN(phone_of(customer), 4)

\* the profiles C9 is about: a missing or short phone number, a missing,
\* empty or unparsable date of birth, or an empty name
Malformed(c) ==
    \/ c.phone_number = None
    \/ Len(phone_of(c)) < 4
    \/ c.date_of_birth = None
    \/ c.date_of_birth = <<>>
    \/ extract_birth_year(c.date_of_birth) = None
    \/ c.name = <<>>

\* C9 (as claimed): on a malformed profile generate_password_candidates
\* does not raise; it returns a list.
C9_NeverThrowsOnMalformed ==
    (gen_called /\ Malformed(customer)) => gen_out.raised = ""

----------------------------------------------------------------------------
(* Properties of the payoff simulation (checked under SpecPayoff)          *)

\* C11 (as claimed): for a balance > 0 and a payment above the first
\* month's interest, neither loop runs more than 600 iterations, and the
\* month count returned equals the number of interest accruals summed into
\* the total interest.
C11_BothLoopsCapped ==
    (/\ sim.balance > 0
     /\ sim.payment > TimesRate(sim.balance, sim.monthly_rate)) =>
        /\ months <= PayoffCap
        /\ n_accruals <= PayoffCap
        /\ pay_pc = "done" => months_result = n_accruals

\* C12 (as claimed): a payment that does not exceed balance * monthly_rate
\* makes neither loop iterate and returns 999 months and infinite total
\* interest; a payment above it returns neither 999 months nor infinite
\* interest.
C12_SentinelIffNeverPaysOff ==
    /\ sim.payment <= TimesRate(sim.balance, sim.monthly_rate) =>
          /\ months = 0 /\ n_accruals = 0
          /\ pay_pc \notin {"payoff_loop", "interest_loop"}
          /\ pay_pc \in {"interest_call", "done"} => months_result = NeverMonths
          /\ pay_pc = "done" => interest_result = Infinity
    /\ sim.payment > TimesRate(sim.balance, sim.monthly_rate) =>
          /\ pay_pc \in {"interest_call", "interest_loop", "done"} =>
                months_result # NeverMonths
          /\ pay_pc = "done" => interest_result # Infinity

----------------------------------------------------------------------------
(* Due dates: C13                                                          *)

\* the entries a list holds for a card
EntriesFor(list, id) == SelectSeq(list, LAMBDA x : x.credit_card_id = id)

\* the tier the classification gives d days before the due date
TierOf(d) ==
    CASE d <= 1 -> "critical"
      [] d \in 2..3 -> "high"
      [] d \in 4..7 -> "medium"
      [] d >= 8 -> "low"

\* every upcoming entry is due today or later and carries the tier of its
\* days_until_due; every overdue entry is past due and carries no tier
TiersAsClassified ==
    /\ \A k \in 1..Len(upcoming.list) :
          /\ upcoming.list[k].days_until_due >= 0
          /\ upcoming.list[k].urgency = TierOf(upcoming.list[k].days_until_due)
    /\ \A k \in 1..Len(overdue.list) :
          /\ overdue.list[k].days_overdue > 0
          /\ "urgency" \notin DOMAIN overdue.list[k]

\* signed days until the due date of a card whose due date parses
DaysUntilDue(card) == toordinal(DueDateOf(card)) - toordinal(today)

\* C13 (as claimed): d < 0 is reported as overdue with days_overdue = -d and
\* no urgency tier, d <= 1 is critical, 2-3 high, 4-7 medium, d >= 8 low, and
\* every card of the customer is in exactly one of the upcoming list and the
\* overdue list of the same day.
C13_ExactlyOneList ==
    (upcoming.called /\ overdue.called) =>
        /\ TiersAsClassified
        /\ \A k \in 1..Len(CardsOf(1)) :
              Len(EntriesFor(upcoming.list, CardsOf(1)[k].id))
                  + Len(EntriesFor(overdue.list, CardsOf(1)[k].id)) = 1

\* C13 (amended): the tiers are as claimed, and a card is in at most one of
\* the two lists of the same day: in the overdue list exactly when its due
\* date parses and d < 0 (with days_overdue = -d), in the upcoming list
\* exactly when its due date parses and 0 <= d <= days_ahead (with
\* days_until_due = d), and in neither otherwise.
C13_AtMostOneList ==
    (upcoming.called /\ overdue.called) =>
        /\ TiersAsClassified
        /\ \A k \in 1..Len(CardsOf(1)) :
              LET card == CardsOf(1)[k]
                  parses == DueDateOf(card) # NoDate
                  ups == EntriesFor(upcoming.list, card.id)
                  overs == EntriesFor(overdue.list, card.id)
              IN /\ Len(ups) + Len(overs) <= 1
                 /\ IF parses /\ DaysUntilDue(card) < 0
                    THEN Len(overs) = 1 /\ overs[1].days_overdue = 0 - DaysUntilDue(card)
                    ELSE overs = <<>>
                 /\ IF parses /\ DaysUntilDue(card) \in 0..upcoming.days_ahead
                    THEN Len(ups) = 1 /\ ups[1].days_until_due = DaysUntilDue(card)
                    ELSE ups = <<>>

\* both lists were asked for with a 10-day window: one card is a day overdue,
\* the other is due in 8 days and is classified low
C13_Witness ==
    /\ upcoming.called /\ overdue.called /\ upcoming.days_ahead = 10
    /\ \E k \in 1..Len(overdue.list) : overdue.list[k].days_overdue = 1
    /\ \E k \in 1..Len(upcoming.list) :
          upcoming.list[k].days_until_due = 8 /\ upcoming.list[k].urgency = "low"

----------------------------------------------------------------------------
(* Rank and rule order: C14                                                *)

\* the strings rule 1 (birth year + phone suffix) produces for a profile
Rule1Strings(c) ==
    Range(PrimaryCandidates(extract_birth_year(c.date_of_birth), phone_of(c)))
        \cup Range(YearPhoneCandidates(extract_birth_year(c.date_of_birth), phone_of(c)))

\* the strings of rules 2, 3 and 4: name + date of birth, name + phone
\* suffix, card-derived
Rule234Strings(c) ==
    Range(NameDateCandidates(name_parts_of(c), c.date_of_birth))
        \cup Range(NamePhoneCandidates(name_parts_of(c), phone_of(c)))
        \cup Range(CardDerivedCandidates(c.credit_cards, DigitsOnly(c.date_of_birth)))

\* the bare birth year and its 2-digit form
BareBirthYear(c) ==
    IF extract_birth_year(c.date_of_birth) = None THEN {}
    ELSE {extract_birth_year(c.date_of_birth), LastN(extract_birth_year(c.date_of_birth), 2)}

\* the strings of rule 5: bare date renderings, name tokens, phone suffixes
\* and birth year
Rule5Strings(c) ==
    Range(DateFormatCandidates(c.date_of_birth)) \cup Range(NameCandidates(name_parts_of(c)))
        \cup Range(PhoneCandidates(phone_of(c))) \cup BareBirthYear(c)

\* what the remaining statements of the generator produce: the legacy date
\* forms, the name-derived forms and birth year + name
OtherStrings(c) ==
    Range(LegacyDateCandidates(extract_birth_year(c.date_of_birth), DigitsOnly(c.date_of_birth)))
        \cup Range(NameDerivedCandidates(Join(name_parts_of(c)), DigitsOnly(c.date_of_birth),
                                         phone_of(c)))
        \cup (Range(BirthYearCandidates(extract_birth_year(c.date_of_birth), name_parts_of(c)))
                 \ BareBirthYear(c))

\* C14: in the returned list every string first produced by rule 2, 3 or 4
\* (produced by one of them and not by rule 1) is ranked ahead of every
\* string produced only by the bare-token rule 5.
C14_RuleOrderDecidesRank ==
    (gen_called /\ gen_out.raised = "") =>
        \A a, b \in DOMAIN gen_out.candidates :
            (/\ gen_out.candidates[a] \in Rule234Strings(customer) \ Rule1Strings(customer)
             /\ gen_out.candidates[b] \in Rule5Strings(customer)
                    \ (Rule1Strings(customer) \cup Rule234Strings(customer)
                          \cup OtherStrings(customer)))
                => a < b

----------------------------------------------------------------------------
(* The credential-recovery loop: C15                                       *)

\* C15: a failing candidate (wrong password, empty text, any other library
\* error) never ends the loop: the candidates are tried in rank order with
\* none skipped, the loop ends at the first candidate that yields non-blank
\* text, which parse_pdf returns, or after all candidates have failed, and
\* then parse_pdf goes on to the last-resort recognition.
C15_LoopNeverAborted ==
    (n_recover > 0 /\ gen_out.raised = "") =>
        /\ tried = [k \in 1..Len(tried) |-> k]
        /\ pc = "loop" =>
              /\ Len(tried) = i /\ first_good = 0
              /\ i > 0 => last_outcome \in {"wrong_password", "empty_text", "library_error"}
        /\ pc # "loop" =>
              \/ /\ pc = "returned" /\ via = "password"
                 /\ first_good = Len(tried) /\ first_good > 0
                 /\ result = good_text /\ ~IsBlank(result)
              \/ /\ first_good = 0 /\ Len(tried) = Len(password_candidates)
                 /\ n_ocr = (IF e = "ocr" THEN 2 ELSE 1)
                 /\ \/ pc = "returned" /\ via = "ocr_last"
                    \/ pc = "raised" /\ exc = "HTTPException"

\* C15 witness: several candidates were tried, the last of them ran into a
\* library error other than a wrong password, and parse_pdf went on to the
\* last-resort recognition and returned its text
C15_Witness ==
    /\ pc = "returned" /\ via = "ocr_last"
    /\ Len(tried) = Len(password_candidates) /\ Len(tried) > 1
    /\ last_outcome = "library_error"

----------------------------------------------------------------------------
(* The reminder table: C16                                                 *)

\* the unsent reminders of a card for a due date
UnsentFor(rows, credit_card_id, due_date) ==
    {k \in 1..Len(rows) : /\ rows[k].credit_card_id = credit_card_id
                          /\ rows[k].due_date = due_date
                          /\ ~rows[k].reminder_sent}

\* at most one unsent reminder per (credit card, due date)
OneUnsentPerCardAndDate(rows) ==
    \A j, k \in 1..Len(rows) :
        (/\ rows[j].credit_card_id = rows[k].credit_card_id
         /\ rows[j].due_date = rows[k].due_date
         /\ ~rows[j].reminder_sent /\ ~rows[k].reminder_sent) => j = k

\* the card a call names
CardWithId(id) == cards[CHOOSE c \in 1..Len(cards) : cards[c].id = id]

\* C16: after every call the table holds at most one unsent reminder per
\* (credit card, due date); create_payment_reminder on a card with an unsent
\* reminder for its current due date returns that reminder and adds nothing,
\* on a card without a due date it returns nothing and adds nothing; and
\* mark_reminder_sent changes nothing but the reminder_sent flag of the
\* reminder it names.
C16_ReminderUniqueness ==
    [][/\ OneUnsentPerCardAndDate(reminders')
       /\ (n_calls' = n_calls + 1 /\ call'.op = "create") =>
             /\ ~HasDueDate(CardWithId(call'.arg)) =>
                   reminders' = reminders /\ returned' = Returned("", NoReminder)
             /\ (/\ HasDueDate(CardWithId(call'.arg))
                 /\ DueDateOf(CardWithId(call'.arg)) # NoDate
                 /\ UnsentFor(reminders, call'.arg, DueDateOf(CardWithId(call'.arg))) # {}) =>
                   /\ reminders' = reminders
                   /\ returned'.raised = ""
                   /\ \E k \in UnsentFor(reminders, call'.arg, DueDateOf(CardWithId(call'.arg))) :
                         returned'.reminder = reminders[k]
       /\ (n_calls' = n_calls + 1 /\ call'.op = "mark") =>
             /\ Len(reminders') = Len(reminders)
             /\ \A k \in 1..Len(reminders) :
                   reminders'[k] =
                       IF reminders[k].id = call'.arg
                       THEN [reminders[k] EXCEPT !.reminder_sent = TRUE]
                       ELSE reminders[k]
             /\ cards' = cards
      ]_vars

\* C16 witness: the table holds a reminder for each card, and a further
\* create_payment_reminder on card 1 returned the unsent reminder it has
C16_Witness ==
    /\ call = [op |-> "create", arg |-> 1]
    /\ Len(reminders) = 2
    /\ returned = Returned("", reminders[1])
    /\ reminders[1].credit_card_id = 1 /\ ~reminders[1].reminder_sent

====
